---------------------------- MODULE Spec2Model ----------------------------
(***************************************************************************)
(* Model of the conversion engine of slick_unit_converter_plus.py: the     *)
(* unit registry (UnitRegistry, the module-level registrations), the       *)
(* expression pattern EXPR_PAT, safe_eval and parse_and_convert.           *)
(*                                                                         *)
(* Text is modelled as TLA+ strings, read one character at a time.         *)
(* Numbers are exact: Python floats are modelled by the rationals they     *)
(* denote in exact arithmetic, so rounding of the last binary digit is     *)
(* outside the model.                                                      *)
(***************************************************************************)
EXTENDS Integers, Sequences, FiniteSets, TLC

\* F applied to x: gives the value x a name in F
With(x, F(_)) == F(x)

(***************************************************************************)
(* Characters and strings                                                  *)
(***************************************************************************)

\* The i-th character of s, as a one-character string.
Ch(s, i) == SubSeq(s, i, i)

UPPER == "ABCDEFGHIJKLMNOPQRSTUVWXYZΜ"
LOWER == "abcdefghijklmnopqrstuvwxyzμ"
DIGITS == "0123456789"

\* The characters of the model in code point order (used by sorted()).
CODEPOINTS == "\t\n !\"#%'()*+,-./0123456789:<=>ABCDEFGHIJKLMNOPQRSTUVWXYZ[]^_abcdefghijklmnopqrstuvwxyz°Μμ"

RECURSIVE IndexIn(_, _, _)
\* Position of character c in string s at or after i; 0 when absent.
IndexIn(s, c, i) ==
    IF i > Len(s) THEN 0
    ELSE IF Ch(s, i) = c THEN i
    ELSE IndexIn(s, c, i + 1)

IsIn(c, s) == IndexIn(s, c, 1) # 0

Ord(c) == IndexIn(CODEPOINTS, c, 1)

\* The characters of s, as a set
Chars(s) == {Ch(s, i) : i \in 1..Len(s)}

UpperChars == Chars(UPPER)
LowerChars == Chars(LOWER)
DigitChars == Chars(DIGITS)

RECURSIVE Zip(_, _, _)
\* The mapping from the characters of s to those of t, from position i on
Zip(s, t, i) ==
    IF i > Len(s) THEN << >> ELSE (Ch(s, i) :> Ch(t, i)) @@ Zip(s, t, i + 1)

ToLower == Zip(UPPER, LOWER, 1)

\* str.lower() of one character
LowerCh(c) == IF c \in UpperChars THEN ToLower[c] ELSE c

RECURSIVE lower(_)
\* str.lower()
lower(s) ==
    IF Len(s) = 0 THEN s
    ELSE LowerCh(Head(s)) \o lower(Tail(s))

IsDigit(c) == c \in DigitChars
IsSpace(c) == c \in {" ", "\t", "\n"}
IsAlpha(c) == c \in UpperChars \/ c \in LowerChars
\* \w of the re module
IsWord(c) == IsAlpha(c) \/ IsDigit(c) \/ c = "_"

RECURSIVE lstrip(_)
lstrip(s) ==
    IF Len(s) > 0 /\ IsSpace(Head(s)) THEN lstrip(Tail(s)) ELSE s

RECURSIVE rstrip(_)
rstrip(s) ==
    IF Len(s) > 0 /\ IsSpace(Ch(s, Len(s)))
    THEN rstrip(SubSeq(s, 1, Len(s) - 1))
    ELSE s

\* str.strip()
strip(s) == rstrip(lstrip(s))

RECURSIVE StrLess(_, _)
\* s < t in Python's string order (code points, shorter prefix first)
StrLess(s, t) ==
    IF Len(t) = 0 THEN FALSE
    ELSE IF Len(s) = 0 THEN TRUE
    ELSE IF Head(s) = Head(t) THEN StrLess(Tail(s), Tail(t))
    ELSE Ord(Head(s)) < Ord(Head(t))

RECURSIVE sorted(_)
\* sorted() of a set of strings, as a sequence
sorted(S) ==
    IF S = {} THEN << >>
    ELSE LET m == CHOOSE x \in S : \A y \in S \ {x} : StrLess(x, y)
         IN  <<m>> \o sorted(S \ {m})

(***************************************************************************)
(* Exact numbers.  A number is (n / d) * PRODUCT g^a[g] with n, d coprime, *)
(* d > 0, and a an exponent map over generators.  The generators are the   *)
(* primes of PRIMES (divided out of n and d, which keeps n and d small)    *)
(* and the symbols "pi", "e", "143640776941" and "100770252916523" (the    *)
(* factors of the psi and hp literals that exceed the checker's integers). *)
(***************************************************************************)

PRIMES == <<2, 5, 127, 6073, 12043>>
PRIMENAMES == <<"2", "5", "127", "6073", "12043">>

NoExp == [g \in {} |-> 0]
Exp(a, g) == IF g \in DOMAIN a THEN a[g] ELSE 0

RECURSIVE Entries(_, _)
\* The map a restricted to G, entry by entry
Entries(a, G) ==
    IF G = {} THEN NoExp
    ELSE LET g == CHOOSE x \in G : TRUE
         IN  (g :> a[g]) @@ Entries(a, G \ {g})

Prune(a) == Entries(a, {x \in DOMAIN a : a[x] # 0})
ExpAdd(a, b) == Prune([g \in (DOMAIN a) \cup (DOMAIN b) |-> Exp(a, g) + Exp(b, g)])
ExpNeg(a) == Prune([g \in DOMAIN a |-> 0 - a[g]])
ExpBump(a, g, k) == ExpAdd(a, g :> k)
\* The exponents a and b have in common
ExpMin(a, b) ==
    Prune([g \in (DOMAIN a) \cup (DOMAIN b) |->
            IF Exp(a, g) < Exp(b, g) THEN Exp(a, g) ELSE Exp(b, g)])

Abs(i) == IF i < 0 THEN 0 - i ELSE i

RECURSIVE Gcd(_, _)
Gcd(x, y) == IF y = 0 THEN x ELSE Gcd(y, x % y)

RECURSIVE IPow(_, _)
IPow(b, k) == IF k = 0 THEN 1 ELSE b * IPow(b, k - 1)

RECURSIVE Multiplicity(_, _)
\* How many times p divides n (n # 0)
Multiplicity(n, p) == IF n % p = 0 THEN 1 + Multiplicity(n \div p, p) ELSE 0

RECURSIVE StripPrimes(_, _, _, _)
\* Moves every factor PRIMES[i..] of n and d into the exponent map.
StripPrimes(n, d, a, i) ==
    IF i > Len(PRIMES) THEN [n |-> n, d |-> d, a |-> a]
    ELSE With(Multiplicity(n, PRIMES[i]), LAMBDA kn :
         With(Multiplicity(d, PRIMES[i]), LAMBDA kd :
            StripPrimes(n \div IPow(PRIMES[i], kn), d \div IPow(PRIMES[i], kd),
                        ExpBump(a, PRIMENAMES[i], kn - kd), i + 1)))

Zero == [n |-> 0, d |-> 1, a |-> NoExp]

\* The number (n / d) * PRODUCT g^a[g] in normal form (d # 0).
Norm(n, d, a) ==
    IF n = 0 THEN Zero
    ELSE With(Gcd(Abs(n), Abs(d)), LAMBDA g :
         With(StripPrimes(Abs(n) \div g, Abs(d) \div g, Prune(a), 1), LAMBDA r :
            [n |-> (IF (n < 0) = (d < 0) THEN 1 ELSE -1) * r.n, d |-> r.d, a |-> r.a]))

Rat(n, d) == Norm(n, d, NoExp)
Int2Num(n) == Rat(n, 1)
One == Int2Num(1)
Sym(g) == [n |-> 1, d |-> 1, a |-> g :> 1]

IsZero(x) == x.n = 0

Neg(x) == [x EXCEPT !.n = 0 - x.n]

Mul(x, y) ==
    IF IsZero(x) \/ IsZero(y) THEN Zero
    ELSE LET g1 == Gcd(Abs(x.n), y.d)
             g2 == Gcd(Abs(y.n), x.d)
         IN  Norm((x.n \div g1) * (y.n \div g2),
                  (x.d \div g2) * (y.d \div g1),
                  ExpAdd(x.a, y.a))

\* 1 / x, for x # 0
Inv(x) == [n |-> IF x.n < 0 THEN 0 - x.d ELSE x.d,
           d |-> Abs(x.n),
           a |-> ExpNeg(x.a)]

\* x / y, for y # 0
Div(x, y) == Mul(x, Inv(y))

PrimeOf(g) == PRIMES[CHOOSE i \in 1..Len(PRIMES) : PRIMENAMES[i] = g]

RECURSIVE ExpValue(_, _)
\* PRODUCT g^a[g] over the generators in G, all of them primes with a[g] >= 0
ExpValue(a, G) ==
    IF G = {} THEN 1
    ELSE LET g == CHOOSE x \in G : TRUE
         IN  IPow(PrimeOf(g), a[g]) * ExpValue(a, G \ {g})

\* x + y.  The common part of the two exponent maps is factored out; what
\* is left must be a product of primes (a sum such as pi + 1 has no normal
\* form here and is not evaluated by the model).
Add(x, y) ==
    IF IsZero(x) THEN y
    ELSE IF IsZero(y) THEN x
    ELSE With(ExpMin(x.a, y.a), LAMBDA c :
         With(ExpAdd(x.a, ExpNeg(c)), LAMBDA xa :
         With(ExpAdd(y.a, ExpNeg(c)), LAMBDA ya :
         With((x.d \div Gcd(x.d, y.d)) * y.d, LAMBDA l :
         With(Norm(x.n * ExpValue(xa, DOMAIN xa) * (l \div x.d)
                    + y.n * ExpValue(ya, DOMAIN ya) * (l \div y.d), l, NoExp), LAMBDA s :
            IF IsZero(s) THEN Zero
            ELSE Norm(s.n, s.d, ExpAdd(s.a, c)))))))

Sub(x, y) == Add(x, Neg(y))

\* x ** k for an integer k
Pow(x, k) ==
    IF k = 0 THEN One
    ELSE IF k < 0
         THEN Inv(Norm(IPow(x.n, 0 - k), IPow(x.d, 0 - k),
                       [g \in DOMAIN x.a |-> x.a[g] * (0 - k)]))
    ELSE Norm(IPow(x.n, k), IPow(x.d, k), [g \in DOMAIN x.a |-> x.a[g] * k])

\* A decimal literal m * 10^k
Dec(m, k) == Norm(m, 1, ("2" :> k) @@ ("5" :> k))

\* x as a pair <<numerator, denominator>>, for x a plain rational
AsRat(x) ==
    With(Prune([g \in DOMAIN x.a |-> IF x.a[g] > 0 THEN x.a[g] ELSE 0]), LAMBDA pos :
    With(Prune([g \in DOMAIN x.a |-> IF x.a[g] < 0 THEN 0 - x.a[g] ELSE 0]), LAMBDA neg :
        <<x.n * ExpValue(pos, DOMAIN pos), x.d * ExpValue(neg, DOMAIN neg)>>))

IsNegative(x) == x.n < 0
IsInteger(x) == AsRat(x)[2] = 1

\* floor(x)
Floor(x) == With(AsRat(x), LAMBDA r : r[1] \div r[2])

(***************************************************************************)
(* Units and their transforms.  A transform (a Python closure or function) *)
(* is a record naming the function, with the defaults f and b it closes    *)
(* over.                                                                   *)
(***************************************************************************)

NoUnit == [name |-> "None"]

\* Unit(name, to_base, from_base, aliases)
Unit(name, to_base, from_base, aliases) ==
    [name |-> name, to_base |-> to_base, from_base |-> from_base,
     aliases |-> aliases]

Range(t) == {t[i] : i \in DOMAIN t}

\* Variant of Apply: K_to_C adds 273.15 where it should subtract
ApplySignSlip(fn, x) ==
    CASE fn.fn = "_to_base" ->
            IF IsZero(fn.b)
            THEN Mul(Sub(Add(x, Zero), Mul(Zero, fn.b)), fn.f)
            ELSE Mul(Add(x, Neg(fn.b)), fn.f)
      [] fn.fn = "_from_base" -> Add(Div(x, fn.f), fn.b)
      [] fn.fn = "lambda x: x" -> x
      [] fn.fn = "C_to_K" -> Add(x, Dec(27315, -2))
      [] fn.fn = "K_to_C" -> Add(x, Dec(27315, -2))
      [] fn.fn = "F_to_K" ->
            Add(Div(Mul(Sub(x, Dec(32, 0)), Dec(5, 0)), Dec(9, 0)), Dec(27315, -2))
      [] fn.fn = "K_to_F" ->
            Add(Div(Mul(Sub(x, Dec(27315, -2)), Dec(9, 0)), Dec(5, 0)), Dec(32, 0))
      [] fn.fn = "R_to_K" -> Div(Mul(x, Dec(5, 0)), Dec(9, 0))
      [] fn.fn = "K_to_R" -> Div(Mul(x, Dec(9, 0)), Dec(5, 0))

\* Calling a transform on x.
Apply(fn, x) ==
    CASE fn.fn = "_to_base" ->
            IF IsZero(fn.b)
            THEN Mul(Sub(Add(x, Zero), Mul(Zero, fn.b)), fn.f)
            ELSE Mul(Add(x, Neg(fn.b)), fn.f)
      [] fn.fn = "_from_base" -> Add(Div(x, fn.f), fn.b)
      [] fn.fn = "lambda x: x" -> x
      [] fn.fn = "C_to_K" -> Add(x, Dec(27315, -2))
      [] fn.fn = "K_to_C" -> Sub(x, Dec(27315, -2))
      [] fn.fn = "F_to_K" ->
            Add(Div(Mul(Sub(x, Dec(32, 0)), Dec(5, 0)), Dec(9, 0)), Dec(27315, -2))
      [] fn.fn = "K_to_F" ->
            Add(Div(Mul(Sub(x, Dec(27315, -2)), Dec(9, 0)), Dec(5, 0)), Dec(32, 0))
      [] fn.fn = "R_to_K" -> Div(Mul(x, Dec(5, 0)), Dec(9, 0))
      [] fn.fn = "K_to_R" -> Div(Mul(x, Dec(9, 0)), Dec(5, 0))

Fn(name) == [fn |-> name, f |-> Zero, b |-> Zero]

(***************************************************************************)
(* The module-level registrations, in execution order.  Each entry is one  *)
(* call of ureg.add.  A factor is written as in the source; a literal with *)
(* more digits than the checker's integers hold is written as a product    *)
(* (0.028349523125 = 25 * 1133980925 * 10^-12).                            *)
(***************************************************************************)

\* Variant of Linear: the first letter of the name is registered as one
\* more alias
LinearAbbreviated(category, name, factor, aliases) ==
    [category |-> category, name |-> name, factor |-> factor, offset |-> Zero,
     to_base |-> "None", from_base |-> "None",
     aliases |-> Append(aliases, Ch(name, 1))]

\* ureg.add(category, name, factor=factor, aliases=aliases)
Linear(category, name, factor, aliases) ==
    [category |-> category, name |-> name, factor |-> factor, offset |-> Zero,
     to_base |-> "None", from_base |-> "None", aliases |-> aliases]

\* ureg.add(category, name, to_base=to_base, from_base=from_base, aliases=aliases)
Custom(category, name, to_base, from_base, aliases) ==
    [category |-> category, name |-> name, factor |-> Zero, offset |-> Zero,
     to_base |-> to_base, from_base |-> from_base, aliases |-> aliases]

\* The ureg.add calls made by add_linear(category, base_name, pairs)
add_linear(category, base_name, pairs) ==
    <<Linear(category, base_name, Dec(1, 0), <<base_name>>)>>
    \o [i \in 1..Len(pairs) |->
            Linear(category, pairs[i][1], pairs[i][2], pairs[i][3])]

REGISTRATIONS ==
    \* line 93
    add_linear("length", "m", <<
        <<"km", Dec(1000, 0), <<"kilometer", "kilometre", "kilometers", "kilometres", "kms">>>>,   \* 1000.0
        <<"cm", Dec(1, -2), <<"centimeter", "centimetre", "centimeters", "centimetres", "cms">>>>,   \* 0.01
        <<"mm", Dec(1, -3), <<"millimeter", "millimetre", "millimeters", "millimetres", "mms">>>>,   \* 0.001
        <<"μm", Dec(1, -6), <<"um", "micrometer", "micrometre", "micron", "microns">>>>,   \* 1e-6
        <<"nm", Dec(1, -9), <<"nanometer", "nanometre", "nanometers", "nanometres">>>>,   \* 1e-9
        <<"in", Dec(254, -4), <<"inch", "inches", "\"">>>>,   \* 0.0254
        <<"ft", Dec(3048, -4), <<"foot", "feet", "'">>>>,   \* 0.3048
        <<"yd", Dec(9144, -4), <<"yard", "yards">>>>,   \* 0.9144
        <<"mi", Dec(1609344, -3), <<"mile", "miles">>>> >>)   \* 1609.344
    \o
    \* line 106
    add_linear("mass", "kg", <<
        <<"g", Dec(1, -3), <<"gram", "grams">>>>,   \* 0.001
        <<"mg", Dec(1, -6), <<"milligram", "milligrams">>>>,   \* 1e-6
        <<"lb", Dec(45359237, -8), <<"lbs", "pound", "pounds">>>>,   \* 0.45359237
        <<"oz", Mul(Dec(25, -12), Int2Num(1133980925)), <<"ounce", "ounces">>>>,   \* 0.028349523125
        <<"ton", Dec(1000, 0), <<"t", "tonne", "tonnes", "metric ton", "metric tons">>>> >>)   \* 1000.0
    \o
    \* line 115
    add_linear("time", "s", <<
        <<"ms", Dec(1, -3), <<"millisecond", "milliseconds">>>>,   \* 1e-3
        <<"μs", Dec(1, -6), <<"us", "microsecond", "microseconds">>>>,   \* 1e-6
        <<"min", Dec(60, 0), <<"minute", "minutes">>>>,   \* 60.0
        <<"h", Dec(3600, 0), <<"hr", "hour", "hours">>>>,   \* 3600.0
        <<"day", Dec(86400, 0), <<"days", "d">>>> >>)   \* 86400.0
    \o
    \* line 124
    <<Linear("speed", "m/s", Dec(1, 0), <<"mps", "meter/second", "metre/second", "meters/second", "metres/second">>)>>
    \o
    \* line 125
    <<Linear("speed", "km/h", Div(Dec(1000, 0), Dec(3600, 0)), <<"kph", "kmph", "kilometer/hour", "kilometre/hour">>)>>
    \o
    \* line 126
    <<Linear("speed", "mph", Div(Dec(1609344, -3), Dec(3600, 0)), <<"mile/hour", "miles/hour">>)>>
    \o
    \* line 127
    <<Linear("speed", "ft/s", Dec(3048, -4), <<"fps", "foot/second", "feet/second", "ftps">>)>>
    \o
    \* line 128
    <<Linear("speed", "kn", Div(Dec(1852, 0), Dec(3600, 0)), <<"knot", "knots">>)>>
    \o
    \* line 131
    add_linear("pressure", "Pa", <<
        <<"kPa", Dec(1000, 0), <<>>>>,   \* 1000.0
        <<"bar", Dec(1, 5), <<>>>>,   \* 1e5
        <<"mbar", Dec(100, 0), <<"millibar", "hPa">>>>,   \* 100.0
        <<"atm", Dec(101325, 0), <<>>>>,   \* 101325.0
        <<"psi", Mul(Dec(48, -9), Sym("143640776941")), <<"pound-force/in^2", "lb/in^2">>>> >>)   \* 6894.757293168
    \o
    \* line 140
    add_linear("energy", "J", <<
        <<"kJ", Dec(1000, 0), <<>>>>,   \* 1000.0
        <<"Wh", Dec(3600, 0), <<"watt-hour", "watt hour">>>>,   \* 3600.0
        <<"kWh", Dec(36, 5), <<"kilowatt-hour", "kilowatt hour">>>>,   \* 3.6e6
        <<"cal", Dec(4184, -3), <<"small calorie", "calorie">>>>,   \* 4.184
        <<"kcal", Dec(4184, 0), <<"Cal", "food calorie">>>>,   \* 4184.0
        <<"eV", Dec(1602176634, -28), <<>>>> >>)   \* 1.602176634e-19
    \o
    \* line 150
    add_linear("power", "W", <<
        <<"kW", Dec(1000, 0), <<>>>>,   \* 1000.0
        <<"MW", Dec(1, 6), <<>>>>,   \* 1e6
        <<"hp", Mul(Dec(74, -13), Sym("100770252916523")), <<"horsepower">>>> >>)   \* 745.6998715822702
    \o
    \* line 157
    add_linear("frequency", "Hz", <<
        <<"kHz", Dec(1, 3), <<>>>>,   \* 1e3
        <<"MHz", Dec(1, 6), <<>>>>,   \* 1e6
        <<"GHz", Dec(1, 9), <<>>>>,   \* 1e9
        <<"rpm", Div(Dec(1, 0), Dec(60, 0)), <<>>>> >>)   \* 1/60.0
    \o
    \* line 165
    add_linear("area", "m^2", <<
        <<"cm^2", Dec(1, -4), <<>>>>,   \* 1e-4
        <<"mm^2", Dec(1, -6), <<>>>>,   \* 1e-6
        <<"km^2", Dec(1, 6), <<>>>>,   \* 1e6
        <<"in^2", Dec(64516, -8), <<>>>>,   \* 0.00064516
        <<"ft^2", Dec(9290304, -8), <<>>>>,   \* 0.09290304
        <<"yd^2", Dec(83612736, -8), <<>>>>,   \* 0.83612736
        <<"acre", Mul(Dec(22, -7), Int2Num(1839480192)), <<>>>>,   \* 4046.8564224
        <<"hectare", Dec(10000, 0), <<"ha">>>> >>)   \* 10000.0
    \o
    \* line 177
    add_linear("volume", "m^3", <<
        <<"L", Dec(1, -3), <<"liter", "litre", "liters", "litres">>>>,   \* 0.001
        <<"mL", Dec(1, -6), <<"ml", "milliliter", "millilitre">>>>,   \* 1e-6
        <<"cm^3", Dec(1, -6), <<"cc", "cubic centimeter", "cubic centimetre">>>>,   \* 1e-6
        <<"in^3", Dec(16387064, -12), <<"cu in">>>>,   \* 1.6387064e-5
        <<"ft^3", Mul(Dec(16, -12), Int2Num(1769802912)), <<"cu ft">>>>,   \* 0.028316846592
        <<"gal", Mul(Dec(2, -12), Int2Num(1892705892)), <<"gallon", "gallons", "US gal">>>>,   \* 0.003785411784
        <<"qt", Dec(946352946, -12), <<"quart", "quarts">>>>,   \* 0.000946352946
        <<"pt", Dec(473176473, -12), <<"pint", "pints">>>>,   \* 0.000473176473
        <<"fl oz", Mul(Dec(165, -16), Int2Num(1792335125)), <<"fluid ounce", "fl. oz.">>>> >>)   \* 2.95735295625e-5
    \o
    \* line 190
    add_linear("data", "B", <<
        <<"KB", Dec(1024, 0), <<>>>>,   \* 1024.0
        <<"MB", Pow(Dec(1024, 0), 2), <<>>>>,   \* 1024.0**2
        <<"GB", Pow(Dec(1024, 0), 3), <<>>>>,   \* 1024.0**3
        <<"TB", Pow(Dec(1024, 0), 4), <<>>>>,   \* 1024.0**4
        <<"bit", Div(Dec(1, 0), Dec(8, 0)), <<"b">>>>,   \* 1/8.0
        <<"Kb", Div(Dec(1024, 0), Dec(8, 0)), <<>>>>,   \* 1024.0/8.0
        <<"Mb", Div(Pow(Dec(1024, 0), 2), Dec(8, 0)), <<>>>>,   \* (1024.0**2)/8.0
        <<"Gb", Div(Pow(Dec(1024, 0), 3), Dec(8, 0)), <<>>>>,   \* (1024.0**3)/8.0
        <<"Tb", Div(Pow(Dec(1024, 0), 4), Dec(8, 0)), <<>>>> >>)   \* (1024.0**4)/8.0
    \o
    \* line 197
    <<Linear("angle", "rad", Dec(1, 0), <<"radian", "radians">>)>>
    \o
    \* line 198
    <<Linear("angle", "deg", Div(Sym("pi"), Dec(180, 0)), <<"degree", "degrees">>)>>
    \o
    \* line 199
    <<Linear("angle", "grad", Div(Sym("pi"), Dec(200, 0)), <<"gon", "grade">>)>>
    \o
    \* line 200
    <<Linear("angle", "turn", Mul(Dec(2, 0), Sym("pi")), <<"rev", "revolution">>)>>
    \o
    \* line 209
    <<Custom("temperature", "K", "lambda x: x", "lambda x: x", <<"kelvin", "kelvins", "k">>)>>
    \o
    \* line 210
    <<Custom("temperature", "C", "C_to_K", "K_to_C", <<"°C", "celsius", "degC">>)>>
    \o
    \* line 211
    <<Custom("temperature", "F", "F_to_K", "K_to_F", <<"°F", "fahrenheit", "degF">>)>>
    \o
    \* line 212
    <<Custom("temperature", "R", "R_to_K", "K_to_R", <<"rankine", "°R">>)>>

(***************************************************************************)
(* UnitRegistry.  categories is the dict of dicts: a sequence (insertion   *)
(* order) of records [cat, units], units a function from key to Unit.      *)
(***************************************************************************)

CatNames(cats) == {cats[i].cat : i \in 1..Len(cats)}
CatIndex(cats, category) == CHOOSE i \in 1..Len(cats) : cats[i].cat = category

\* self.categories.get(category, {})
UnitsOf(cats, category) ==
    IF category \in CatNames(cats) THEN cats[CatIndex(cats, category)].units
    ELSE [k \in {} |-> NoUnit]

RECURSIVE Keyed(_, _)
\* The mapping that takes every key of keys to u
Keyed(keys, u) ==
    IF keys = {} THEN << >>
    ELSE LET k == CHOOSE x \in keys : TRUE
         IN  (k :> u) @@ Keyed(keys \ {k}, u)

\* UnitRegistry.add: the registry after the call c
add(cats, c) ==
    LET cats1 == IF c.category \in CatNames(cats) THEN cats
                 ELSE Append(cats, [cat |-> c.category, units |-> [k \in {} |-> NoUnit]])
        i == CatIndex(cats1, c.category)
        cat == cats1[i].units
        names == {c.name} \cup Range(c.aliases)
        u == IF c.to_base = "None" /\ c.from_base = "None"
             THEN Unit(c.name,
                       [fn |-> "_to_base", f |-> c.factor, b |-> c.offset],
                       [fn |-> "_from_base", f |-> c.factor, b |-> c.offset],
                       names)
             ELSE Unit(c.name, Fn(c.to_base), Fn(c.from_base), names)
        keys == {lower(alias) : alias \in names}
    IN  [cats1 EXCEPT ![i].units = Keyed(keys, u) @@ cat]

\* Variant of get: the key is looked up as written, without lower()
get_exact(cats, category, unit_key) ==
    LET units == UnitsOf(cats, category)
    IN  IF unit_key \in DOMAIN units THEN units[unit_key] ELSE NoUnit

\* UnitRegistry.get
get(cats, category, unit_key) ==
    LET units == UnitsOf(cats, category)
    IN  IF lower(unit_key) \in DOMAIN units THEN units[lower(unit_key)] ELSE NoUnit

RECURSIVE DetectFromEither(_, _, _, _)
\* Variant of DetectFrom: a category holding either key is taken
DetectFromEither(cats, al, bl, i) ==
    IF i > Len(cats) THEN "None"
    ELSE IF al \in DOMAIN cats[i].units \/ bl \in DOMAIN cats[i].units
         THEN cats[i].cat
    ELSE DetectFromEither(cats, al, bl, i + 1)

RECURSIVE DetectFrom(_, _, _, _)
DetectFrom(cats, al, bl, i) ==
    IF i > Len(cats) THEN "None"
    ELSE IF al \in DOMAIN cats[i].units /\ bl \in DOMAIN cats[i].units
         THEN cats[i].cat
    ELSE DetectFrom(cats, al, bl, i + 1)

\* UnitRegistry.detect_category
detect_category(cats, a, b) == DetectFrom(cats, lower(a), lower(b), 1)

\* UnitRegistry.list_categories
list_categories(cats) == sorted(CatNames(cats))

\* UnitRegistry.list_units
list_units(cats, category) ==
    LET units == UnitsOf(cats, category)
        seen == {units[k].name : k \in DOMAIN units}
    IN  sorted(seen)

(***************************************************************************)
(* EXPR_PAT and re.match.  A pattern is a sequence of items; Match tries   *)
(* the alternatives of each item in the order of a backtracking matcher    *)
(* (greedy: longest first, lazy: shortest first, optional group: present   *)
(* first) and returns the first way the whole pattern matches.             *)
(***************************************************************************)

\* Membership of character c in a character class of EXPR_PAT
InClass(cls, c) ==
    CASE cls = "\\s" -> IsSpace(c)
      [] cls = "[-+*/^().\\w\\s]" ->
            c \in {"-", "+", "*", "/", "^", "(", ")", "."} \/ IsWord(c) \/ IsSpace(c)
      [] cls = "[^\\d\\s]" -> ~IsDigit(c) /\ ~IsSpace(c)
      [] cls = "[^0-9]" -> c \notin DigitChars
      [] cls = "." -> c # "\n"

Star(cls) == [k |-> "rep", cls |-> cls, min |-> 0, greedy |-> TRUE]
Plus(cls) == [k |-> "rep", cls |-> cls, min |-> 1, greedy |-> TRUE]
LazyStar(cls) == [k |-> "rep", cls |-> cls, min |-> 0, greedy |-> FALSE]
LazyPlus(cls) == [k |-> "rep", cls |-> cls, min |-> 1, greedy |-> FALSE]
OneOf(cls) == [k |-> "one", cls |-> cls]
Lit(s) == [k |-> "lit", s |-> s]
Opt(items) == [k |-> "opt", items |-> items]
Alt(alts) == [k |-> "alt", alts |-> alts]
Open(g) == [k |-> "open", g |-> g]
Close(g) == [k |-> "close", g |-> g]
Eos == [k |-> "eos"]

\* r'^\s*(?:convert\s+)?(?P<value>[-+*/^().\w\s]+?)\s*(?P<from>[^\d\s][^0-9]*?)
\*   \s+(?:to|in)\s+(?P<to>.+?)\s*$', re.IGNORECASE
EXPR_PAT ==
    << Star("\\s"),
       Opt(<<Lit("convert"), Plus("\\s")>>),
       Open("value"), LazyPlus("[-+*/^().\\w\\s]"), Close("value"),
       Star("\\s"),
       Open("from"), OneOf("[^\\d\\s]"), LazyStar("[^0-9]"), Close("from"),
       Plus("\\s"),
       Alt(<<"to", "in">>),
       Plus("\\s"),
       Open("to"), LazyPlus("."), Close("to"),
       Star("\\s"),
       Eos >>

NoMatch == [ok |-> FALSE]

RECURSIVE RunLen(_, _, _)
\* Number of consecutive characters of class cls in s from position i
RunLen(cls, s, i) ==
    IF i <= Len(s) /\ InClass(cls, Ch(s, i)) THEN 1 + RunLen(cls, s, i + 1) ELSE 0

\* Variant of LitAt: the pattern compiled without re.IGNORECASE
LitAtExact(t, s, i) ==
    /\ i + Len(t) - 1 <= Len(s)
    /\ SubSeq(s, i, i + Len(t) - 1) = t

\* Does the literal t occur in s at position i, ignoring case?
LitAt(t, s, i) ==
    /\ i + Len(t) - 1 <= Len(s)
    /\ lower(SubSeq(s, i, i + Len(t) - 1)) = lower(t)

RECURSIVE Match(_, _, _, _)
RECURSIVE TryRep(_, _, _, _, _, _, _)
RECURSIVE TryAlt(_, _, _, _, _, _)

\* Matches the items against s from position i; caps holds the group
\* boundaries seen so far.
Match(items, s, i, caps) ==
    IF Len(items) = 0 THEN [ok |-> TRUE, caps |-> caps]
    ELSE LET it == Head(items)
             rest == Tail(items)
         IN  CASE it.k = "lit" ->
                    IF LitAt(it.s, s, i) THEN Match(rest, s, i + Len(it.s), caps)
                    ELSE NoMatch
               [] it.k = "one" ->
                    IF i <= Len(s) /\ InClass(it.cls, Ch(s, i))
                    THEN Match(rest, s, i + 1, caps)
                    ELSE NoMatch
               [] it.k = "rep" ->
                    With(RunLen(it.cls, s, i), LAMBDA mx :
                        TryRep(it, rest, s, i, caps,
                               IF it.greedy THEN mx ELSE it.min, mx))
               [] it.k = "opt" ->
                    With(Match(it.items \o rest, s, i, caps), LAMBDA r :
                        IF r.ok THEN r ELSE Match(rest, s, i, caps))
               [] it.k = "alt" -> TryAlt(it.alts, 1, rest, s, i, caps)
               [] it.k = "open" ->
                    Match(rest, s, i, [caps EXCEPT ![it.g] = <<i, i - 1>>])
               [] it.k = "close" ->
                    Match(rest, s, i, [caps EXCEPT ![it.g] = <<caps[it.g][1], i - 1>>])
               [] it.k = "eos" ->
                    IF i = Len(s) + 1 \/ (i = Len(s) /\ Ch(s, i) = "\n")
                    THEN Match(rest, s, i, caps)
                    ELSE NoMatch

\* The repetition it taken n times, then the rest; on failure the next n.
TryRep(it, rest, s, i, caps, n, mx) ==
    IF n < it.min \/ n > mx THEN NoMatch
    ELSE With(Match(rest, s, i + n, caps), LAMBDA r :
            IF r.ok THEN r
            ELSE TryRep(it, rest, s, i, caps, IF it.greedy THEN n - 1 ELSE n + 1, mx))

TryAlt(alts, j, rest, s, i, caps) ==
    IF j > Len(alts) THEN NoMatch
    ELSE With(IF LitAt(alts[j], s, i)
              THEN Match(rest, s, i + Len(alts[j]), caps)
              ELSE NoMatch, LAMBDA r :
            IF r.ok THEN r ELSE TryAlt(alts, j + 1, rest, s, i, caps))

\* EXPR_PAT.match(s): [ok |-> FALSE] or the three named groups
match(s) ==
    With(Match(EXPR_PAT, s, 1, [g \in {"value", "from", "to"} |-> <<0, 0>>]), LAMBDA r :
        LET group(g) == SubSeq(s, r.caps[g][1], r.caps[g][2])
        IN  IF r.ok
            THEN [ok |-> TRUE, value |-> group("value"), from |-> group("from"),
                  to |-> group("to")]
            ELSE NoMatch)

(***************************************************************************)
(* Python expressions: the part of ast.parse(expr, mode='eval') that       *)
(* safe_eval relies on.  Tokenize and the Parse operators cover numbers,   *)
(* names, quoted strings, parentheses, brackets, commas, calls, attribute  *)
(* access, subscripts, '<', '~' and the arithmetic operators.  Text that   *)
(* uses anything else of Python (keywords, '=', ':', escapes, ...) is      *)
(* outside the model: evaluating it stops the checker with an error        *)
(* instead of yielding an outcome.                                         *)
(***************************************************************************)

Unmodelled == CHOOSE x \in {} : TRUE

SyntaxError == [ok |-> FALSE, exc |-> "SyntaxError"]

RECURSIVE replace(_, _, _)
\* str.replace(old, new) for a one-character old
replace(s, old, new) ==
    IF Len(s) = 0 THEN s
    ELSE (IF Head(s) = old THEN new ELSE Head(s)) \o replace(Tail(s), old, new)

RECURSIVE DigitsFrom(_, _)
DigitsFrom(s, i) ==
    IF i <= Len(s) /\ IsDigit(Ch(s, i)) THEN 1 + DigitsFrom(s, i + 1) ELSE 0

RECURSIVE WordFrom(_, _)
WordFrom(s, i) ==
    IF i <= Len(s) /\ IsWord(Ch(s, i)) THEN 1 + WordFrom(s, i + 1) ELSE 0

RECURSIVE DigitsToInt(_)
DigitsToInt(s) ==
    IF Len(s) = 0 THEN 0
    ELSE DigitsToInt(SubSeq(s, 1, Len(s) - 1)) * 10
            + (IndexIn(DIGITS, Ch(s, Len(s)), 1) - 1)

\* The decimal number literal of s that starts at i: digits, optional
\* fraction, optional exponent.  end is the position after it.
\* j is the position after the integer digits, nf the number of fraction
\* digits, k the position after the fraction, sg the length of the
\* exponent's sign and ne the number of exponent digits.
ScanNumber(s, i) ==
    With(i + DigitsFrom(s, i), LAMBDA j :
    With(j <= Len(s) /\ Ch(s, j) = ".", LAMBDA hasdot :
    With(IF hasdot THEN DigitsFrom(s, j + 1) ELSE 0, LAMBDA nf :
    With(IF hasdot THEN j + 1 + nf ELSE j, LAMBDA k :
    With(k <= Len(s) /\ Ch(s, k) \in {"e", "E"}, LAMBDA isE :
    With(IF isE /\ k + 1 <= Len(s) /\ Ch(s, k + 1) \in {"+", "-"} THEN 1 ELSE 0, LAMBDA sg :
    With(IF isE THEN DigitsFrom(s, k + 1 + sg) ELSE 0, LAMBDA ne :
    With(DigitsToInt(SubSeq(s, k + 1 + sg, k + sg + ne)), LAMBDA ev :
        [ip |-> SubSeq(s, i, j - 1), nd |-> (j - i) + nf, hasdot |-> hasdot,
         hasexp |-> ne > 0,
         v |-> Dec(DigitsToInt(SubSeq(s, i, j - 1) \o SubSeq(s, j + 1, j + nf)),
                   (IF ne = 0 THEN 0
                    ELSE IF sg = 1 /\ Ch(s, k + 1) = "-" THEN 0 - ev ELSE ev) - nf),
         end |-> IF ne > 0 THEN k + 1 + sg + ne ELSE k]))))))))

RECURSIVE AllZero(_)
AllZero(s) == Len(s) = 0 \/ (Head(s) = "0" /\ AllZero(Tail(s)))

Tk(k, s, v) == [k |-> k, s |-> s, v |-> v]

\* Keywords a number may be followed by without a separating space
NumberKeywords == {"and", "else", "for", "if", "in", "is", "not", "or"}
KeywordAt(s, i) ==
    \E kw \in NumberKeywords :
        i + Len(kw) - 1 <= Len(s) /\ SubSeq(s, i, i + Len(kw) - 1) = kw

RECURSIVE Tok(_, _, _)
Tok(s, i, acc) ==
    IF i > Len(s) THEN [ok |-> TRUE, toks |-> acc]
    ELSE LET c == Ch(s, i)
             nx == IF i < Len(s) THEN Ch(s, i + 1) ELSE ""
         IN  CASE c \in {" ", "\t"} -> Tok(s, i + 1, acc)
               [] c = "\n" ->
                    IF Len(strip(SubSeq(s, i, Len(s)))) = 0
                    THEN [ok |-> TRUE, toks |-> acc]
                    ELSE Unmodelled
               [] IsDigit(c) \/ (c = "." /\ IsDigit(nx)) ->
                    With(ScanNumber(s, i), LAMBDA n :
                    LET after == IF n.end <= Len(s) THEN Ch(s, n.end) ELSE ""
                        after2 == IF n.end < Len(s) THEN Ch(s, n.end + 1) ELSE ""
                    IN  IF after \in {"j", "J"}
                        THEN IF IsWord(after2) THEN SyntaxError
                             ELSE Tok(s, n.end + 1,
                                      Append(acc, Tk("imag", SubSeq(s, i, n.end), n.v)))
                        ELSE IF after = "_" \/ KeywordAt(s, n.end)
                                \/ (n.ip = "0" /\ after \in {"x", "X", "o", "O", "b", "B"})
                             THEN Unmodelled
                        ELSE IF IsWord(after) THEN SyntaxError
                        ELSE IF ~n.hasdot /\ ~n.hasexp /\ Len(n.ip) > 1
                                /\ Head(n.ip) = "0" /\ ~AllZero(n.ip)
                             THEN SyntaxError
                        ELSE Tok(s, n.end,
                                 Append(acc, Tk("num", SubSeq(s, i, n.end - 1), n.v))))
               [] IsAlpha(c) \/ c = "_" ->
                    With(WordFrom(s, i), LAMBDA n :
                        IF i + n <= Len(s) /\ Ch(s, i + n) \in {"'", "\""} THEN Unmodelled
                        ELSE Tok(s, i + n, Append(acc, Tk("name", SubSeq(s, i, i + n - 1), Zero))))
               [] c \in {"'", "\""} ->
                    With(IndexIn(s, c, i + 1), LAMBDA e :
                    LET body == SubSeq(s, i + 1, e - 1)
                    IN  IF e = 0 THEN SyntaxError
                        ELSE IF IsIn("\\", body) \/ IsIn("\n", body)
                                \/ (e = i + 1 /\ e < Len(s) /\ Ch(s, e + 1) = c)
                             THEN Unmodelled
                        ELSE Tok(s, e + 1, Append(acc, Tk("str", body, Zero))))
               [] c = "*" /\ nx = "*" -> Tok(s, i + 2, Append(acc, Tk("op", "**", Zero)))
               [] c = "/" /\ nx = "/" -> Tok(s, i + 2, Append(acc, Tk("op", "//", Zero)))
               [] c \in {"+", "-", "*", "/", "%", "(", ")", "[", "]", ",", ".", "<", "~"}
                    /\ ~(c = "*" /\ nx = "*") /\ ~(c = "/" /\ nx = "/") ->
                    IF c = "<" /\ nx \in {"<", "=", ">"} THEN Unmodelled
                    ELSE Tok(s, i + 1, Append(acc, Tk("op", c, Zero)))
               [] c \in {"°", "$", "?"} -> SyntaxError
               [] OTHER -> Unmodelled

\* The tokens of s, or SyntaxError.  Leading whitespace is an
\* IndentationError, a SyntaxError.
Tokenize(s) ==
    IF Len(s) > 0 /\ Head(s) \in {" ", "\t"} /\ Len(strip(s)) > 0 THEN SyntaxError
    ELSE Tok(s, 1, << >>)

Keywords == {"and", "as", "assert", "async", "await", "break", "class",
             "continue", "def", "del", "elif", "else", "except", "finally",
             "for", "from", "global", "if", "import", "in", "is", "lambda",
             "nonlocal", "not", "or", "pass", "raise", "return", "try",
             "while", "with", "yield"}

\* AST nodes
Constant(ty, v) == [t |-> "Constant", ty |-> ty, v |-> v]
\* A numeric Constant; int tells an int literal from a float literal
Number(v, int) == [t |-> "Constant", ty |-> "num", v |-> v, int |-> int]
Name(id) == [t |-> "Name", id |-> id]
BinOp(left, op, right) == [t |-> "BinOp", left |-> left, op |-> op, right |-> right]
UnaryOp(op, operand) == [t |-> "UnaryOp", op |-> op, operand |-> operand]
Call(func, args) == [t |-> "Call", func |-> func, args |-> args]
Tuple(elts) == [t |-> "Tuple", elts |-> elts]
List(elts) == [t |-> "List", elts |-> elts]
Attribute(value, attr) == [t |-> "Attribute", value |-> value, attr |-> attr]
Subscript(value, slice) == [t |-> "Subscript", value |-> value, slice |-> slice]
Compare(left, ops, comparators) ==
    [t |-> "Compare", left |-> left, ops |-> ops, comparators |-> comparators]

BinOpName(s) ==
    CASE s = "+" -> "Add" [] s = "-" -> "Sub" [] s = "*" -> "Mult"
      [] s = "/" -> "Div" [] s = "//" -> "FloorDiv" [] s = "%" -> "Mod"
      [] s = "**" -> "Pow"
UnaryOpName(s) ==
    CASE s = "+" -> "UAdd" [] s = "-" -> "USub" [] s = "~" -> "Invert"

IsOp(toks, p, S) == p <= Len(toks) /\ toks[p].k = "op" /\ toks[p].s \in S

Parsed(node, p) == [ok |-> TRUE, node |-> node, p |-> p]

RECURSIVE ParseExprList(_, _, _)
RECURSIVE ParseCompare(_, _)
RECURSIVE CompareLoop(_, _, _, _, _)
RECURSIVE ParseArith(_, _)
RECURSIVE ArithLoop(_, _, _)
RECURSIVE ParseTerm(_, _)
RECURSIVE TermLoop(_, _, _)
RECURSIVE ParseFactor(_, _)
RECURSIVE ParsePrimary(_, _)
RECURSIVE ParsePower(_, _)
RECURSIVE ParseTrailers(_, _, _)
RECURSIVE ParseAtom(_, _)

\* expr (',' expr)* [',']: the elements, and whether a comma was seen
ParseExprList(toks, p, elts) ==
    With(ParseCompare(toks, p), LAMBDA r :
        IF ~r.ok THEN SyntaxError
        ELSE IF IsOp(toks, r.p, {","})
             THEN IF r.p + 1 > Len(toks) \/ IsOp(toks, r.p + 1, {")", "]"})
                  THEN [ok |-> TRUE, elts |-> Append(elts, r.node),
                        comma |-> TRUE, p |-> r.p + 1]
                  ELSE With(ParseExprList(toks, r.p + 1, Append(elts, r.node)), LAMBDA q :
                            IF q.ok THEN [q EXCEPT !.comma = TRUE] ELSE SyntaxError)
        ELSE [ok |-> TRUE, elts |-> Append(elts, r.node), comma |-> FALSE, p |-> r.p])

ListNode(r) == IF r.comma THEN Tuple(r.elts) ELSE r.elts[1]

ParseCompare(toks, p) ==
    With(ParseArith(toks, p), LAMBDA r :
        IF ~r.ok THEN SyntaxError
        ELSE IF IsOp(toks, r.p, {"<"}) THEN CompareLoop(toks, r.node, << >>, << >>, r.p)
        ELSE r)

CompareLoop(toks, left, ops, comparators, p) ==
    IF IsOp(toks, p, {"<"})
    THEN With(ParseArith(toks, p + 1), LAMBDA r :
            IF ~r.ok THEN SyntaxError
            ELSE CompareLoop(toks, left, Append(ops, "Lt"), Append(comparators, r.node), r.p))
    ELSE Parsed(Compare(left, ops, comparators), p)

ParseArith(toks, p) ==
    With(ParseTerm(toks, p), LAMBDA r :
        IF ~r.ok THEN SyntaxError ELSE ArithLoop(toks, r.node, r.p))

ArithLoop(toks, left, p) ==
    IF IsOp(toks, p, {"+", "-"})
    THEN With(ParseTerm(toks, p + 1), LAMBDA r :
            IF ~r.ok THEN SyntaxError
            ELSE ArithLoop(toks, BinOp(left, BinOpName(toks[p].s), r.node), r.p))
    ELSE Parsed(left, p)

ParseTerm(toks, p) ==
    With(ParseFactor(toks, p), LAMBDA r :
        IF ~r.ok THEN SyntaxError ELSE TermLoop(toks, r.node, r.p))

TermLoop(toks, left, p) ==
    IF IsOp(toks, p, {"*", "/", "//", "%"})
    THEN With(ParseFactor(toks, p + 1), LAMBDA r :
            IF ~r.ok THEN SyntaxError
            ELSE TermLoop(toks, BinOp(left, BinOpName(toks[p].s), r.node), r.p))
    ELSE Parsed(left, p)

ParseFactor(toks, p) ==
    IF IsOp(toks, p, {"+", "-", "~"})
    THEN With(ParseFactor(toks, p + 1), LAMBDA r :
            IF ~r.ok THEN SyntaxError
            ELSE Parsed(UnaryOp(UnaryOpName(toks[p].s), r.node), r.p))
    ELSE ParsePower(toks, p)

\* atom trailer*
ParsePrimary(toks, p) ==
    With(ParseAtom(toks, p), LAMBDA a :
        IF a.ok THEN ParseTrailers(toks, a.node, a.p) ELSE SyntaxError)

ParsePower(toks, p) ==
    With(ParsePrimary(toks, p), LAMBDA r :
        IF ~r.ok THEN SyntaxError
        ELSE IF IsOp(toks, r.p, {"**"})
             THEN With(ParseFactor(toks, r.p + 1), LAMBDA e :
                    IF ~e.ok THEN SyntaxError
                    ELSE Parsed(BinOp(r.node, "Pow", e.node), e.p))
        ELSE r)

ParseTrailers(toks, node, p) ==
    IF IsOp(toks, p, {"("})
    THEN IF IsOp(toks, p + 1, {")"})
         THEN ParseTrailers(toks, Call(node, << >>), p + 2)
         ELSE With(ParseExprList(toks, p + 1, << >>), LAMBDA r :
                IF r.ok /\ IsOp(toks, r.p, {")"})
                THEN ParseTrailers(toks, Call(node, r.elts), r.p + 1)
                ELSE SyntaxError)
    ELSE IF IsOp(toks, p, {"["})
    THEN With(ParseExprList(toks, p + 1, << >>), LAMBDA r :
            IF r.ok /\ IsOp(toks, r.p, {"]"})
            THEN ParseTrailers(toks, Subscript(node, ListNode(r)), r.p + 1)
            ELSE SyntaxError)
    ELSE IF IsOp(toks, p, {"."})
    THEN IF p + 1 <= Len(toks) /\ toks[p + 1].k = "name"
         THEN IF toks[p + 1].s \in Keywords THEN Unmodelled
              ELSE ParseTrailers(toks, Attribute(node, toks[p + 1].s), p + 2)
         ELSE SyntaxError
    ELSE Parsed(node, p)

ParseAtom(toks, p) ==
    IF p > Len(toks) THEN SyntaxError
    ELSE LET t == toks[p]
         IN  CASE t.k = "num" -> Parsed(Number(t.v, DigitsFrom(t.s, 1) = Len(t.s)), p + 1)
               [] t.k = "imag" -> Parsed(Constant("complex", t.v), p + 1)
               [] t.k = "str" ->
                    IF p < Len(toks) /\ toks[p + 1].k = "str" THEN Unmodelled
                    ELSE Parsed(Constant("str", t.s), p + 1)
               [] t.k = "name" ->
                    IF t.s \in Keywords THEN Unmodelled
                    ELSE IF t.s \in {"True", "False"}
                         THEN Parsed(Constant("bool", t.s = "True"), p + 1)
                    ELSE IF t.s = "None" THEN Parsed(Constant("NoneType", "None"), p + 1)
                    ELSE Parsed(Name(t.s), p + 1)
               [] t.k = "op" /\ t.s = "(" ->
                    IF IsOp(toks, p + 1, {")"}) THEN Parsed(Tuple(<< >>), p + 2)
                    ELSE With(ParseExprList(toks, p + 1, << >>), LAMBDA r :
                            IF r.ok /\ IsOp(toks, r.p, {")"})
                            THEN Parsed(ListNode(r), r.p + 1)
                            ELSE SyntaxError)
               [] t.k = "op" /\ t.s = "[" ->
                    IF IsOp(toks, p + 1, {"]"}) THEN Parsed(List(<< >>), p + 2)
                    ELSE With(ParseExprList(toks, p + 1, << >>), LAMBDA r :
                            IF r.ok /\ IsOp(toks, r.p, {"]"})
                            THEN Parsed(List(r.elts), r.p + 1)
                            ELSE SyntaxError)
               [] OTHER -> SyntaxError

\* ast.parse(expr, mode='eval'): the body of the Expression, or SyntaxError
parse(expr) ==
    With(Tokenize(expr), LAMBDA tk :
        IF ~tk.ok THEN SyntaxError
        ELSE With(ParseExprList(tk.toks, 1, << >>), LAMBDA r :
                IF r.ok /\ r.p = Len(tk.toks) + 1
                THEN [ok |-> TRUE, node |-> ListNode(r)]
                ELSE SyntaxError))

(***************************************************************************)
(* safe_eval                                                               *)
(***************************************************************************)

\* Python values
Value(ty, v) ==
    CASE ty = "num" -> [ty |-> ty, v |-> v]
      [] ty = "bool" -> [ty |-> ty, b |-> v]
      [] ty \in {"tuple", "list"} -> [ty |-> ty, elts |-> v]
      [] OTHER -> [ty |-> ty, s |-> v]
NumV(x) == Value("num", x)

\* allowed_names: the keys, and the ones bound to functions
allowed_names == {"pi", "e", "sqrt", "sin", "cos", "tan", "abs", "round"}
AllowedFunctions == {"sqrt", "sin", "cos", "tan", "abs", "round"}

\* allowed_nodes (ast.Num is an alias of ast.Constant)
allowed_nodes == {"Expression", "BinOp", "UnaryOp", "Call", "Load", "Add",
                  "Sub", "Mult", "Div", "Pow", "USub", "UAdd", "Mod",
                  "FloorDiv", "Name", "Constant", "Tuple", "List"}

Leaf(t) == [t |-> t]

\* ast.iter_child_nodes
ChildNodes(n) ==
    CASE n.t = "Expression" -> <<n.body>>
      [] n.t = "BinOp" -> <<n.left, Leaf(n.op), n.right>>
      [] n.t = "UnaryOp" -> <<Leaf(n.op), n.operand>>
      [] n.t = "Call" -> <<n.func>> \o n.args
      [] n.t = "Name" -> <<Leaf("Load")>>
      [] n.t = "Tuple" -> n.elts \o <<Leaf("Load")>>
      [] n.t = "List" -> n.elts \o <<Leaf("Load")>>
      [] n.t = "Attribute" -> <<n.value, Leaf("Load")>>
      [] n.t = "Subscript" -> <<n.value, n.slice, Leaf("Load")>>
      [] n.t = "Compare" ->
            <<n.left>> \o [i \in 1..Len(n.ops) |-> Leaf(n.ops[i])] \o n.comparators
      [] OTHER -> << >>

\* Variant of CheckNode: only the node type is checked, not what a Call calls
CheckNodeTypesOnly(n) ==
    IF n.t \notin allowed_nodes THEN "Disallowed expression element" ELSE "ok"

\* The check safe_eval makes on one node: "ok" or the message it raises
CheckNode(n) ==
    IF n.t \notin allowed_nodes THEN "Disallowed expression element"
    ELSE IF n.t = "Call" /\ (n.func.t # "Name" \/ n.func.id \notin allowed_names)
         THEN "Only sqrt/sin/cos/tan/abs/round, pi, e are allowed."
    ELSE "ok"

RECURSIVE Walk(_)
\* for n in ast.walk(node): the message of the first failing check, or "ok"
Walk(todo) ==
    IF Len(todo) = 0 THEN "ok"
    ELSE With(CheckNode(Head(todo)), LAMBDA c :
            IF c # "ok" THEN c
            ELSE Walk(Tail(todo) \o ChildNodes(Head(todo))))

\* Outcomes of evaluating a node: a value, or an exception.  calls lists
\* the callables invoked so far, in order.
Returned(v, calls) == [ok |-> TRUE, v |-> v, calls |-> calls]
Raised(exc, calls) == [ok |-> FALSE, exc |-> exc, calls |-> calls]

\* The symbols whose sign is known (all positive)
PositiveSyms == Range(PRIMENAMES) \cup {"pi", "e", "143640776941", "100770252916523"}
SignKnown(x) == DOMAIN x.a \subseteq PositiveSyms
IsPlain(x) == DOMAIN x.a \subseteq Range(PRIMENAMES)

RatText(r) == ToString(r[1]) \o "/" \o ToString(r[2])

\* Largest r in 0..k with r * r <= k (k small)
ISqrt(k) == CHOOSE r \in 0..k : r * r <= k /\ (r + 1) * (r + 1) > k
SqrtLimit == 10000

\* math.sqrt on a non-negative plain rational: exact for squares of small
\* numerator and denominator, otherwise a symbol for the irrational root
Sqrt(x) ==
    With(AsRat(x), LAMBDA r :
        IF /\ r[1] <= SqrtLimit /\ r[2] <= SqrtLimit
           /\ ISqrt(r[1]) * ISqrt(r[1]) = r[1]
           /\ ISqrt(r[2]) * ISqrt(r[2]) = r[2]
        THEN Rat(ISqrt(r[1]), ISqrt(r[2]))
        ELSE Sym("sqrt(" \o RatText(r) \o ")"))

\* sin, cos, tan of the angle x (radians): exact at the multiples of pi/6
\* and pi/4 where the value is rational, otherwise a symbol
Trig(f, x) ==
    IF IsZero(x) THEN (IF f = "cos" THEN One ELSE Zero)
    ELSE IF IsPlain(x) THEN Sym(f \o "(" \o RatText(AsRat(x)) \o ")")
    ELSE IF IsPlain(Div(x, Sym("pi")))
    THEN With(AsRat(Div(x, Sym("pi"))), LAMBDA q :
         \* x = (t[1] / t[2]) pi, in [0, 2 pi)
         With(<<(q[1] % (2 * q[2])), q[2]>>, LAMBDA t :
         With(Rat(1, 2), LAMBDA half :
         LET at(a, b) == t[1] * b = a * t[2]
         IN  CASE f = "sin" /\ (at(0, 1) \/ at(1, 1)) -> Zero
               [] f = "sin" /\ (at(1, 6) \/ at(5, 6)) -> half
               [] f = "sin" /\ at(1, 2) -> One
               [] f = "sin" /\ (at(7, 6) \/ at(11, 6)) -> Neg(half)
               [] f = "sin" /\ at(3, 2) -> Neg(One)
               [] f = "cos" /\ at(0, 1) -> One
               [] f = "cos" /\ (at(1, 3) \/ at(5, 3)) -> half
               [] f = "cos" /\ (at(1, 2) \/ at(3, 2)) -> Zero
               [] f = "cos" /\ (at(2, 3) \/ at(4, 3)) -> Neg(half)
               [] f = "cos" /\ at(1, 1) -> Neg(One)
               [] f = "tan" /\ (at(0, 1) \/ at(1, 1)) -> Zero
               [] f = "tan" /\ (at(1, 4) \/ at(5, 4)) -> One
               [] f = "tan" /\ (at(3, 4) \/ at(7, 4)) -> Neg(One)
               [] f = "tan" /\ (at(1, 2) \/ at(3, 2)) -> Unmodelled
               [] OTHER -> Sym(f \o "(" \o RatText(q) \o " pi)"))))
    ELSE Unmodelled

\* math.radians
radians(x) == Mul(x, Div(Sym("pi"), Int2Num(180)))

\* round(x): to the nearest integer, ties to the even one
Round(x) ==
    With(Floor(x), LAMBDA f :
    With(AsRat(Sub(x, Int2Num(f))), LAMBDA r :
        IF 2 * r[1] < r[2] THEN f
        ELSE IF 2 * r[1] > r[2] THEN f + 1
        ELSE IF f % 2 = 0 THEN f ELSE f + 1))

\* The call name(args) of a whitelisted function; calls already holds name.
CallFunction(name, args, mode_deg, calls) ==
    IF name = "round" /\ Len(args) = 2 THEN Unmodelled
    ELSE IF Len(args) # 1 THEN Raised("TypeError", calls)
    ELSE LET x == args[1]
         IN  IF x.ty \in {"bool", "complex"} THEN Unmodelled
             ELSE IF x.ty # "num" THEN Raised("TypeError", calls)
             ELSE CASE name = "sqrt" ->
                        IF ~SignKnown(x.v) THEN Unmodelled
                        ELSE IF IsNegative(x.v) THEN Raised("ValueError", calls)
                        ELSE IF IsPlain(x.v) THEN Returned(NumV(Sqrt(x.v)), calls)
                        ELSE Unmodelled
                   [] name \in {"sin", "cos", "tan"} ->
                        Returned(NumV(Trig(name, IF mode_deg THEN radians(x.v) ELSE x.v)),
                                 calls)
                   [] name = "abs" ->
                        IF ~SignKnown(x.v) THEN Unmodelled
                        ELSE Returned(NumV(IF IsNegative(x.v) THEN Neg(x.v) ELSE x.v), calls)
                   [] name = "round" -> Returned(NumV(Int2Num(Round(x.v))), calls)

PowLimit == 64

\* left op right on numbers
BinaryOp(op, x, y, calls) ==
    CASE op = "Add" -> Returned(NumV(Add(x, y)), calls)
      [] op = "Sub" -> Returned(NumV(Sub(x, y)), calls)
      [] op = "Mult" -> Returned(NumV(Mul(x, y)), calls)
      [] op = "Div" ->
            IF IsZero(y) THEN Raised("ZeroDivisionError", calls)
            ELSE Returned(NumV(Div(x, y)), calls)
      [] op = "FloorDiv" ->
            IF IsZero(y) THEN Raised("ZeroDivisionError", calls)
            ELSE Returned(NumV(Int2Num(Floor(Div(x, y)))), calls)
      [] op = "Mod" ->
            IF IsZero(y) THEN Raised("ZeroDivisionError", calls)
            ELSE Returned(NumV(Sub(x, Mul(y, Int2Num(Floor(Div(x, y)))))), calls)
      [] op = "Pow" ->
            IF ~IsPlain(y) \/ ~IsInteger(y) THEN Unmodelled
            ELSE With(AsRat(y)[1], LAMBDA k :
                    IF Abs(k) > PowLimit THEN Unmodelled
                    ELSE IF IsZero(x) /\ k < 0 THEN Raised("ZeroDivisionError", calls)
                    ELSE Returned(NumV(Pow(x, k)), calls))

RECURSIVE Repeat(_, _)
\* seq * k for a tuple or list
Repeat(seq, k) == IF k <= 0 THEN << >> ELSE seq \o Repeat(seq, k - 1)

RECURSIVE Eval(_, _, _)
RECURSIVE EvalAll(_, _, _, _, _)

\* Evaluation of the compiled node with globals {'__builtins__': {}} and
\* locals allowed_names
Eval(n, mode_deg, calls) ==
    CASE n.t = "Constant" -> Returned(Value(n.ty, n.v), calls)
      [] n.t = "Name" ->
            IF n.id = "pi" THEN Returned(NumV(Sym("pi")), calls)
            ELSE IF n.id = "e" THEN Returned(NumV(Sym("e")), calls)
            ELSE IF n.id \in AllowedFunctions THEN Returned(Value("builtin", n.id), calls)
            ELSE Raised("NameError", calls)
      [] n.t \in {"Tuple", "List"} ->
            With(EvalAll(n.elts, 1, << >>, mode_deg, calls), LAMBDA r :
                IF r.ok THEN Returned(Value(IF n.t = "Tuple" THEN "tuple" ELSE "list", r.v),
                                      r.calls)
                ELSE r)
      [] n.t = "UnaryOp" ->
            With(Eval(n.operand, mode_deg, calls), LAMBDA r :
                IF ~r.ok THEN r
                ELSE IF r.v.ty = "num"
                     THEN Returned(NumV(IF n.op = "USub" THEN Neg(r.v.v) ELSE r.v.v), r.calls)
                ELSE IF r.v.ty \in {"bool", "complex"} THEN Unmodelled
                ELSE Raised("TypeError", r.calls))
      [] n.t = "BinOp" ->
            With(Eval(n.left, mode_deg, calls), LAMBDA l :
                IF ~l.ok THEN l
                ELSE
            With(Eval(n.right, mode_deg, l.calls), LAMBDA r :
                IF ~r.ok THEN r
                ELSE IF l.v.ty = "num" /\ r.v.ty = "num"
                     THEN BinaryOp(n.op, l.v.v, r.v.v, r.calls)
                ELSE IF {l.v.ty, r.v.ty} \cap {"builtin", "NoneType"} # {}
                     THEN Raised("TypeError", r.calls)
                ELSE IF n.op = "Mult" /\ l.v.ty \in {"tuple", "list"}
                        /\ n.right.t = "Constant" /\ n.right.ty = "num" /\ n.right.int
                     THEN Returned(Value(l.v.ty, Repeat(l.v.elts, AsRat(r.v.v)[1])), r.calls)
                ELSE Unmodelled))
      [] n.t = "Call" ->
            With(Eval(n.func, mode_deg, calls), LAMBDA f :
                IF ~f.ok THEN f
                ELSE
            With(EvalAll(n.args, 1, << >>, mode_deg, f.calls), LAMBDA a :
                IF ~a.ok THEN a
                ELSE IF f.v.ty # "builtin" THEN Raised("TypeError", a.calls)
                ELSE CallFunction(f.v.s, a.v, mode_deg, Append(a.calls, f.v.s))))

\* The values of nodes[i..], left to right, appended to acc
EvalAll(nodes, i, acc, mode_deg, calls) ==
    IF i > Len(nodes) THEN Returned(acc, calls)
    ELSE With(Eval(nodes[i], mode_deg, calls), LAMBDA r :
            IF ~r.ok THEN r
            ELSE EvalAll(nodes, i + 1, Append(acc, r.v), mode_deg, r.calls))

\* safe_eval(expr, mode_deg).  evaluated tells whether eval() was reached.
safe_eval(expr, mode_deg) ==
    With(parse(replace(expr, "^", "**")), LAMBDA node :
        IF ~node.ok
        THEN [ok |-> FALSE, exc |-> "SyntaxError", msg |-> "", evaluated |-> FALSE,
              calls |-> << >>]
        ELSE
    With(Walk(<<[t |-> "Expression", body |-> node.node]>>), LAMBDA w :
        IF w # "ok"
        THEN [ok |-> FALSE, exc |-> "ValueError", msg |-> w, evaluated |-> FALSE,
              calls |-> << >>]
        ELSE
    With(Eval(node.node, mode_deg, << >>), LAMBDA r :
        IF r.ok
        THEN [ok |-> TRUE, v |-> r.v, evaluated |-> TRUE, calls |-> r.calls]
        ELSE [ok |-> FALSE, exc |-> r.exc, msg |-> "", evaluated |-> TRUE,
              calls |-> r.calls])))

\* float(text): Python's float() of a string
ParseFloat(text) ==
    With(strip(text), LAMBDA s :
    With(IF Len(s) > 0 /\ Head(s) \in {"+", "-"} THEN 1 ELSE 0, LAMBDA sg :
        IF \/ lower(SubSeq(s, 1 + sg, Len(s))) \in {"inf", "infinity", "nan"}
           \/ \E i \in 2..(Len(s) - 1) :
                    Ch(s, i) = "_" /\ IsDigit(Ch(s, i - 1)) /\ IsDigit(Ch(s, i + 1))
        THEN Unmodelled
        ELSE
    With(ScanNumber(s, 1 + sg), LAMBDA n :
        IF Len(s) > sg /\ n.nd > 0 /\ n.end = Len(s) + 1
        THEN [ok |-> TRUE, v |-> IF sg = 1 /\ Head(s) = "-" THEN Neg(n.v) ELSE n.v]
        ELSE [ok |-> FALSE, exc |-> "ValueError"])))

\* float(v) of a Python value
ToFloat(v) ==
    CASE v.ty = "num" -> [ok |-> TRUE, v |-> v.v]
      [] v.ty = "bool" -> [ok |-> TRUE, v |-> IF v.b THEN One ELSE Zero]
      [] v.ty = "str" -> ParseFloat(v.s)
      [] OTHER -> [ok |-> FALSE, exc |-> "TypeError"]

(***************************************************************************)
(* parse_and_convert.  trace lists the steps the call performed, in order. *)
(***************************************************************************)

Failure(msg, trace, calls) ==
    [kind |-> "raise", exc |-> "ValueError", msg |-> msg, trace |-> trace,
     calls |-> calls]

\* Variant of EvalValue: float(val_expr) first, safe_eval on failure
EvalValueFloatFirst(val_expr, deg_mode) ==
    With(ParseFloat(val_expr), LAMBDA g :
        IF g.ok
        THEN [ok |-> TRUE, v |-> g.v, trace |-> <<"float(val_expr)">>, calls |-> << >>]
        ELSE
    With(safe_eval(val_expr, deg_mode), LAMBDA e :
    With(IF e.ok THEN ToFloat(e.v) ELSE [ok |-> FALSE], LAMBDA f :
    LET t1 == IF e.ok THEN <<"float(val_expr)", "safe_eval", "float(result)">>
              ELSE <<"float(val_expr)", "safe_eval">>
    IN  IF f.ok THEN [ok |-> TRUE, v |-> f.v, trace |-> t1, calls |-> e.calls]
        ELSE [ok |-> FALSE, trace |-> t1, calls |-> e.calls])))

\* value = float(safe_eval(val_expr, mode_deg=deg_mode)), and on any
\* exception value = float(val_expr)
EvalValue(val_expr, deg_mode) ==
    With(safe_eval(val_expr, deg_mode), LAMBDA e :
    With(IF e.ok THEN ToFloat(e.v) ELSE [ok |-> FALSE], LAMBDA f :
    LET t1 == IF e.ok THEN <<"safe_eval", "float(result)">> ELSE <<"safe_eval">>
    IN  IF f.ok THEN [ok |-> TRUE, v |-> f.v, trace |-> t1, calls |-> e.calls]
        ELSE
    With(ParseFloat(val_expr), LAMBDA g :
        IF g.ok
        THEN [ok |-> TRUE, v |-> g.v, trace |-> t1 \o <<"float(val_expr)">>,
              calls |-> e.calls]
        ELSE [ok |-> FALSE, trace |-> t1 \o <<"float(val_expr)">>, calls |-> e.calls])))

\* Variant of parse_and_convert: the category is detected before the value
\* is evaluated
parse_and_convert_units_first(cats, s, deg_mode) ==
    With(match(s), LAMBDA m :
        IF ~m.ok THEN Failure("Could not parse expression", <<"match">>, << >>)
        ELSE
    With(strip(m.from), LAMBDA u_from :
    With(strip(m.to), LAMBDA u_to :
    With(detect_category(cats, u_from, u_to), LAMBDA cat :
        IF cat = "None"
        THEN Failure("Cannot detect a common category",
                     <<"match", "detect_category">>, << >>)
        ELSE
    With(EvalValue(strip(m.value), deg_mode), LAMBDA value :
    With(<<"match", "detect_category">> \o value.trace, LAMBDA t2 :
        IF ~value.ok
        THEN Failure("could not convert string to float", t2, value.calls)
        ELSE
    With(get(cats, cat, u_from), LAMBDA uf :
    With(get(cats, cat, u_to), LAMBDA ut :
    With(t2 \o <<"get", "get">>, LAMBDA t4 :
        IF uf = NoUnit \/ ut = NoUnit
        THEN Failure("Unknown unit(s)", t4, value.calls)
        ELSE [kind |-> "return", value |-> value.v, from_unit |-> uf.name,
              category |-> cat,
              out_value |-> Apply(ut.from_base, Apply(uf.to_base, value.v)),
              to_unit |-> ut.name,
              trace |-> t4 \o <<"to_base", "from_base">>,
              calls |-> value.calls])))))))))

parse_and_convert(cats, s, deg_mode) ==
    With(match(s), LAMBDA m :
        IF ~m.ok THEN Failure("Could not parse expression", <<"match">>, << >>)
        ELSE
    With(strip(m.from), LAMBDA u_from :
    With(strip(m.to), LAMBDA u_to :
    With(EvalValue(strip(m.value), deg_mode), LAMBDA value :
    With(<<"match">> \o value.trace, LAMBDA t2 :
        IF ~value.ok
        THEN Failure("could not convert string to float", t2, value.calls)
        ELSE
    With(detect_category(cats, u_from, u_to), LAMBDA cat :
        IF cat = "None"
        THEN Failure("Cannot detect a common category",
                     t2 \o <<"detect_category">>, value.calls)
        ELSE
    With(get(cats, cat, u_from), LAMBDA uf :
    With(get(cats, cat, u_to), LAMBDA ut :
    With(t2 \o <<"detect_category", "get", "get">>, LAMBDA t4 :
        IF uf = NoUnit \/ ut = NoUnit
        THEN Failure("Unknown unit(s)", t4, value.calls)
        ELSE [kind |-> "return", value |-> value.v, from_unit |-> uf.name,
              category |-> cat,
              out_value |-> Apply(ut.from_base, Apply(uf.to_base, value.v)),
              to_unit |-> ut.name,
              trace |-> t4 \o <<"to_base", "from_base">>,
              calls |-> value.calls])))))))))

(***************************************************************************)
(* Front ends: the line printed for a conversion, the batch tab, the REPL  *)
(* and main.                                                               *)
(***************************************************************************)

RECURSIVE splitlines(_)
\* str.splitlines() ('\n' is the only line break in the texts of the model)
splitlines(s) ==
    IF Len(s) = 0 THEN << >>
    ELSE With(IndexIn(s, "\n", 1), LAMBDA i :
            IF i = 0 THEN <<s>>
            ELSE <<SubSeq(s, 1, i - 1)>> \o splitlines(SubSeq(s, i + 1, Len(s))))

RECURSIVE join(_, _)
\* sep.join(parts)
join(sep, parts) ==
    IF Len(parts) = 0 THEN ""
    ELSE IF Len(parts) = 1 THEN parts[1]
    ELSE parts[1] \o sep \o join(sep, Tail(parts))

RECURSIVE NumDigits(_)
\* Number of decimal digits of k > 0
NumDigits(k) == IF k < 10 THEN 1 ELSE 1 + NumDigits(k \div 10)

RECURSIVE LeadingZeros(_, _)
\* Number of zeros between the point and the first nonzero digit of n / d,
\* 0 < n < d
LeadingZeros(n, d) == IF 10 * n >= d THEN 0 ELSE 1 + LeadingZeros(10 * n, d)

RECURSIVE LongDiv(_, _, _, _)
\* <<floor((q + r / d) * 10^p), remainder>> for 0 <= r < d
LongDiv(q, r, d, p) ==
    IF p = 0 THEN <<q, r>>
    ELSE LongDiv(q * 10 + (r * 10) \div d, (r * 10) % d, d, p - 1)

RECURSIVE Padded(_, _)
\* k as p decimal digits
Padded(k, p) == IF p = 0 THEN "" ELSE Padded(k \div 10, p - 1) \o ToString(k % 10)

RECURSIVE StripZeros(_)
StripZeros(s) ==
    IF Len(s) > 0 /\ Ch(s, Len(s)) = "0" THEN StripZeros(SubSeq(s, 1, Len(s) - 1))
    ELSE s

\* The six significant digits of 'g' presentation
Precision == 6

\* format(x, 'g') where it uses fixed notation (x = 0 or 1e-4 <= |x| < 1e6):
\* six significant digits, rounded half to even, trailing zeros removed
FormatG(x) ==
    IF ~IsPlain(x) THEN Unmodelled
    ELSE
    With(AsRat(x), LAMBDA r :
        IF r[1] = 0 THEN "0"
        ELSE
    With(Abs(r[1]), LAMBDA n :
    With(IF n >= r[2] THEN Precision - NumDigits(n \div r[2])
         ELSE Precision + LeadingZeros(n, r[2]), LAMBDA p :
        IF p < 0 \/ p > Precision + 3 THEN Unmodelled
        ELSE
    With(LongDiv(n \div r[2], n % r[2], r[2], p), LAMBDA q :
    With(IF 2 * q[2] > r[2] \/ (2 * q[2] = r[2] /\ q[1] % 2 = 1)
         THEN q[1] + 1 ELSE q[1], LAMBDA S :
        IF p = 0 /\ S >= IPow(10, Precision) THEN Unmodelled
        ELSE
    With(StripZeros(Padded(S % IPow(10, p), p)), LAMBDA frac :
        (IF r[1] < 0 THEN "-" ELSE "")
        \o ToString(S \div IPow(10, p))
        \o (IF frac = "" THEN "" ELSE "." \o frac)))))))

\* f"{v:g} {uf} = {y:g} {ut}   [{cat}]"
ResultLine(r) ==
    FormatG(r.value) \o " " \o r.from_unit \o " = " \o FormatG(r.out_value)
    \o " " \o r.to_unit \o "   [" \o r.category \o "]"

RECURSIVE BatchLoopAbort(_, _, _, _, _)
\* Variant of BatchLoop: the first failing line ends the loop
BatchLoopAbort(cats, lines, i, deg_mode, acc) ==
    IF i > Len(lines) THEN acc
    ELSE IF strip(lines[i]) = "" THEN BatchLoopAbort(cats, lines, i + 1, deg_mode, acc)
    ELSE With(parse_and_convert(cats, lines[i], deg_mode), LAMBDA r :
            IF r.kind = "return"
            THEN BatchLoopAbort(cats, lines, i + 1, deg_mode,
                    [out_lines |-> Append(acc.out_lines, ResultLine(r)),
                     passed |-> Append(acc.passed, lines[i])])
            ELSE [out_lines |->
                    Append(acc.out_lines,
                           "[error] " \o lines[i] \o "  →  " \o r.msg),
                  passed |-> Append(acc.passed, lines[i])])

RECURSIVE BatchLoop(_, _, _, _, _)
\* for line in lines: ... (from line i on); acc holds out_lines and the
\* lines passed to parse_and_convert so far
BatchLoop(cats, lines, i, deg_mode, acc) ==
    IF i > Len(lines) THEN acc
    ELSE IF strip(lines[i]) = "" THEN BatchLoop(cats, lines, i + 1, deg_mode, acc)
    ELSE With(parse_and_convert(cats, lines[i], deg_mode), LAMBDA r :
            BatchLoop(cats, lines, i + 1, deg_mode,
                [out_lines |->
                    Append(acc.out_lines,
                           IF r.kind = "return" THEN ResultLine(r)
                           ELSE "[error] " \o lines[i] \o "  →  " \o r.msg),
                 passed |-> Append(acc.passed, lines[i])]))

\* Variant of run_batch: a failing line ends the batch
run_batch_abort(cats, text, deg_mode) ==
    With(BatchLoopAbort(cats, splitlines(strip(text)), 1, deg_mode,
                        [out_lines |-> << >>, passed |-> << >>]), LAMBDA b :
        [kind |-> "return", out_lines |-> b.out_lines, passed |-> b.passed,
         batch_res |-> join("\n", b.out_lines)])

\* run_batch of the Batch tab: the records, and the text put in batch_res
run_batch(cats, text, deg_mode) ==
    With(BatchLoop(cats, splitlines(strip(text)), 1, deg_mode,
                   [out_lines |-> << >>, passed |-> << >>]), LAMBDA b :
        [kind |-> "return", out_lines |-> b.out_lines, passed |-> b.passed,
         batch_res |-> join("\n", b.out_lines)])

\* An optional argument: None, or the value given
None == << >>
Some(x) == <<x>>

\* cmd_list(category): the lines it prints
cmd_list(cats, category) ==
    IF category # None /\ category[1] # ""
    THEN With(list_units(cats, category[1]), LAMBDA units :
            IF units = << >> THEN <<"No such category: " \o category[1]>>
            ELSE units)
    ELSE list_categories(cats)

\* s.startswith(p)
startswith(s, p) == Len(s) >= Len(p) /\ SubSeq(s, 1, Len(p)) = p

RECURSIVE WordLen(_, _)
\* Length of the run of non-blank characters of s from position i
WordLen(s, i) ==
    IF i > Len(s) \/ IsSpace(Ch(s, i)) THEN 0 ELSE 1 + WordLen(s, i + 1)

RECURSIVE split(_)
\* s.split()
split(s) ==
    With(lstrip(s), LAMBDA t :
        IF t = "" THEN << >>
        ELSE With(WordLen(t, 1), LAMBDA n :
                <<SubSeq(t, 1, n)>> \o split(SubSeq(t, n + 1, Len(t)))))

\* What cmd_repl prints before its loop (of the help, which has one more
\* line for each of its four commands, the first three lines)
Banner ==
    <<"Advanced Unit Converter REPL",
      "Commands:",
      "  <expr> like:  3 ft to cm   |  5 kg in lb  | convert 100 kph to mph">>

\* cmd_repl at its first input(): deg = False
ReplStart ==
    [kind |-> "running", deg |-> FALSE, out |-> Banner, passed |-> << >>]

\* Variant of ReplStep: ':rad' prints its line and leaves the mode
ReplStepKeepDeg(cats, st, raw) ==
    With(strip(raw), LAMBDA s :
        IF s = "" THEN st
        ELSE IF s \in {":quit", ":q", ":exit"} THEN [st EXCEPT !.kind = "return"]
        ELSE IF s = ":deg"
        THEN [st EXCEPT !.deg = TRUE, !.out = Append(@, "Trig mode: degrees")]
        ELSE IF s = ":rad"
        THEN [st EXCEPT !.out = Append(@, "Trig mode: radians")]
        ELSE IF startswith(s, ":list")
        THEN With(split(s), LAMBDA parts :
                [st EXCEPT !.out = @ \o
                    (IF Len(parts) = 1 THEN cmd_list(cats, None)
                     ELSE cmd_list(cats, Some(parts[2])))])
        ELSE With(parse_and_convert(cats, s, st.deg), LAMBDA r :
                [st EXCEPT
                    !.out = Append(@, IF r.kind = "return" THEN ResultLine(r)
                                      ELSE "Error: " \o r.msg),
                    !.passed = Append(@, [s |-> s, deg_mode |-> st.deg])]))

\* One turn of the loop of cmd_repl on the line raw that input() returned.
\* st holds the mode deg, the lines printed so far (the prompts are not
\* lines) and the calls of parse_and_convert made so far.
ReplStep(cats, st, raw) ==
    With(strip(raw), LAMBDA s :
        IF s = "" THEN st
        ELSE IF s \in {":quit", ":q", ":exit"} THEN [st EXCEPT !.kind = "return"]
        ELSE IF s = ":deg"
        THEN [st EXCEPT !.deg = TRUE, !.out = Append(@, "Trig mode: degrees")]
        ELSE IF s = ":rad"
        THEN [st EXCEPT !.deg = FALSE, !.out = Append(@, "Trig mode: radians")]
        ELSE IF startswith(s, ":list")
        THEN With(split(s), LAMBDA parts :
                [st EXCEPT !.out = @ \o
                    (IF Len(parts) = 1 THEN cmd_list(cats, None)
                     ELSE cmd_list(cats, Some(parts[2])))])
        ELSE With(parse_and_convert(cats, s, st.deg), LAMBDA r :
                [st EXCEPT
                    !.out = Append(@, IF r.kind = "return" THEN ResultLine(r)
                                      ELSE "Error: " \o r.msg),
                    !.passed = Append(@, [s |-> s, deg_mode |-> st.deg])]))

\* input() raised EOFError or KeyboardInterrupt: print() and break
ReplEnd(st) == [st EXCEPT !.kind = "return", !.out = Append(@, "")]

RECURSIVE ReplLoop(_, _, _, _)
\* The loop of cmd_repl from the i-th line of stdin on
ReplLoop(cats, st, stdin, i) ==
    IF st.kind = "return" THEN st
    ELSE IF i > Len(stdin) THEN ReplEnd(st)
    ELSE ReplLoop(cats, ReplStep(cats, st, stdin[i]), stdin, i + 1)

\* cmd_repl() reading the lines stdin and then the end of input
cmd_repl(cats, stdin) == ReplLoop(cats, ReplStart, stdin, 1)

\* args.list: absent (None), the bare flag (const=True) or a category text
NoList == [flag |-> "None", category |-> ""]
BareList == [flag |-> "True", category |-> ""]
ListOf(category) == [flag |-> "str", category |-> category]

\* p.print_help() is reduced to its first line
Usage == <<"usage: slick_unit_converter_plus.py [-h] [--list [LIST]] [--repl] [--gui] [--deg] [expr]">>

Exit(code, ran, stdout, stderr) ==
    [kind |-> "return", code |-> code, ran |-> ran, stdout |-> stdout,
     stderr |-> stderr]

\* main() on the parsed arguments args; stdin is what a REPL would read.
\* The value carries the code returned, the function main handed over to
\* and the lines printed.
main(cats, args, stdin) ==
    IF args.list.flag = "str"
    THEN Exit(0, "cmd_list", cmd_list(cats, Some(args.list.category)), << >>)
    ELSE IF args.list.flag = "True"
    THEN Exit(0, "cmd_list", cmd_list(cats, None), << >>)
    ELSE IF args.repl
    THEN Exit(0, "cmd_repl", cmd_repl(cats, stdin).out, << >>)
    ELSE IF args.gui \/ (args.expr = None /\ ~args.repl /\ args.list.flag = "None")
    THEN Exit(0, "launch_gui", << >>, << >>)
    ELSE IF args.expr # None /\ args.expr[1] # ""
    THEN With(parse_and_convert(cats, args.expr[1], args.deg), LAMBDA r :
            IF r.kind = "return"
            THEN Exit(0, "parse_and_convert", <<ResultLine(r)>>, << >>)
            ELSE Exit(2, "parse_and_convert", << >>, <<"Error: " \o r.msg>>))
    ELSE Exit(0, "print_help", Usage, << >>)

(***************************************************************************)
(* Inputs                                                                  *)
(***************************************************************************)

\* The integers 0..MaxValue are used as value texts.
MaxValue == 3

\* Every name and alias text of the calls regs
Texts(regs) == UNION {{regs[i].name} \cup Range(regs[i].aliases) : i \in DOMAIN regs}

\* The canonical names and the categories of the calls regs
Names(regs) == {regs[i].name : i \in DOMAIN regs}
Categories(regs) == {regs[i].category : i \in DOMAIN regs}

\* The calls of regs that register in one category
In(regs, category) == SelectSeq(regs, LAMBDA c : c.category = category)

\* The first unit registered in each category
Bases(regs) ==
    {regs[j].name :
        j \in {j \in DOMAIN regs :
                 \A k \in 1..(j - 1) : regs[k].category # regs[j].category}}

AllUnitTexts == Texts(REGISTRATIONS)
CanonicalNames == Names(REGISTRATIONS)
CategoryNames == Categories(REGISTRATIONS)

\* The texts registered in one category
TextsOf(category) == Texts(In(REGISTRATIONS, category))

UnknownUnitTexts == {"furlong", "kB", "m2", ""}

ValueTexts ==
    {ToString(k) : k \in 0..MaxValue}
    \cup {"-3", "2.5", "1e3", "1+2", "2*3", "2^3", "007", "1/0", "()*1", "1/4"}

\* The canonical names registered in one category
NamesOf(category) == Names(In(REGISTRATIONS, category))

BaseNames == Bases(REGISTRATIONS)

\* Unit pairs: in one category every text against every canonical name,
\* both ways; across categories every canonical name or unknown text
\* against every base name or unknown text, both ways
Pairs(regs) ==
    UNION {With(In(regs, c), LAMBDA rc :
                (Texts(rc) \X Names(rc)) \cup (Names(rc) \X Texts(rc))) :
            c \in Categories(regs)}
    \cup With(Names(regs) \cup UnknownUnitTexts, LAMBDA names :
          With(Bases(regs) \cup UnknownUnitTexts, LAMBDA bases :
              (names \X bases) \cup (bases \X names)))

UnitPairs == Pairs(REGISTRATIONS)

\* Whole expressions that do not have the shape "<value> <from> to <to>"
SpecialExpressions ==
    {"(1+2) ft to cm", "sqrt(16) ft to cm", "pi m to cm", "__import__('os') to m",
     "convert 3 ft to cm", "  Convert   12.5   Metric Tons   IN   kg  \n",
     "3ft to cm", "3 ft into cm", "3 ft to  ", "", "ft to cm", "3 ) ft to cm",
     "1,5 ft to cm", "3 ft to cm to m", "abs(-3) ft to cm", "sin(90) deg to rad",
     "3 FT to CM", "CONVERT 3 FT TO CM", "3 Ft In Cm", "3 ΜM to MM",
     "1/0 furlong to parsec", "x ft to kg", "1/0 to cm"}

\* Expressions of the shape "<value> <from> <to|in> <to>"
Phrase(value, from, sep, to) == value \o " " \o from \o " " \o sep \o " " \o to

UnitExpressions == {Phrase("3", p[1], "to", p[2]) : p \in UnitPairs}

ValueExpressions ==
    {Phrase(p[1], p[2], p[3], p[4]) :
        p \in ValueTexts \X {"ft", "F", "kcal", "m"} \X {"to", "in"} \X {"cm", "C", "J", "kg"}}

\* The pairs of canonical names of one category
Listed(regs) ==
    UNION {With(Names(In(regs, c)), LAMBDA names : names \X names) :
            c \in Categories(regs)}

ListedExpressions ==
    {Phrase("1", p[1], "to", p[2]) : p \in Listed(REGISTRATIONS)}

\* The calls of parse_and_convert: <<s, deg_mode>>
Requests ==
    ((UnitExpressions \cup ListedExpressions) \X {FALSE})
    \cup ((ValueExpressions \cup SpecialExpressions) \X BOOLEAN)

\* Values handed to a unit's transforms directly: 0, negative, fractional,
\* large and small
RoundTripValues ==
    {Zero, One, Int2Num(-3), Dec(25, -1), Dec(1, 6), Dec(-7, 5), Dec(1, -3)}

\* Values of larger and smaller magnitude, handed to the factor transforms
\* (with the offsets of the temperature transforms their exact sums leave
\* the integers of the checker)
ExtremeValues == {Dec(1, 12), Dec(-7, 9), Dec(1, -9)}

\* Texts of the batch box
BatchTexts ==
    {"3 ft to cm\nbogus\n5 kg in lb",
     "3 ft to cm\n\n   \n1 km to m\n",
     "# lengths\n3 ft to cm",
     "1/0 m to cm\n3 ft to cm\n1 mi to km",
     "",
     "  3 ft to cm  \n   # note\nft to cm",
     "3 ft to kg\n#\n1 furlong to m\n-3 C to F"}

\* Expressions handed to safe_eval directly (the keypad entry)
\* The lines typed at the REPL, and the longest session
ReplInputs ==
    {"", ":deg", ":rad", " :list money ", ":listing", ":q", ":quit", ":exit",
     "3 ft to cm", "bogus", "sin(90)*1 m to cm"}

MaxInputs == 3

\* What a REPL started by main reads
ReplScripts ==
    {<< >>,
     <<"3 ft to cm", ":q", "bogus">>,
     <<":deg", "sin(90)*1 m to cm", ":rad", "bogus", "", "3 ft to cm">>}

\* The command lines: expr, --list, --repl, --gui, --deg
MainExprs ==
    {None, Some(""), Some("3 ft to cm"), Some("bogus"), Some("1/0 m to cm"),
     Some("cos(0)*2 m to cm")}

ListArgs ==
    {NoList, BareList, ListOf("length"), ListOf("money"), ListOf("")}

EvalTexts ==
    ValueTexts \cup
    {"(1,2)", "[1,2]", "'abc'", "True", "None", "sqrt", "pi(1)", "1j", "a.b",
     "a[0]", "1<2", "~1", "sqrt(4)", "sqrt(-1)", "round(2.5)", "abs(-3)",
     "7//2", "7%3", "e", "pi", "x", "x(1)", "(sqrt)(4)", "sqrt(4)(1)",
     "sqrt.x(1)", "[sqrt(4)]", "()", "__import__('os')", "abs(x)",
     "[abs(-1), sqrt(-1), round(1)]", "(1+2)", "sqrt(16)", "sin(90)",
     "cos(0)", "tan(45)", " 1", "1 2", "(1+2", "sqrt()", "2*pi"}

(***************************************************************************)
(* State                                                                   *)
(***************************************************************************)

VARIABLES
    categories,   \* ureg.categories
    pending,      \* the module-level registrations not yet executed
    call,         \* the call in progress: its name and arguments
    ret           \* what the call returned or raised

vars == <<categories, pending, call, ret>>

NoCall == [op |-> "none"]
NoRet == [kind |-> "none"]

\* ureg = UnitRegistry()
Init ==
    /\ categories = << >>
    /\ pending = REGISTRATIONS
    /\ call = NoCall
    /\ ret = NoRet

\* The next module-level registration statement
Register ==
    /\ pending # << >>
    /\ categories' = add(categories, Head(pending))
    /\ pending' = Tail(pending)
    /\ UNCHANGED <<call, ret>>

\* The module is imported: every registration has run
Started == pending = << >>

Idle == Started /\ call = NoCall

\* A caller runs parse_and_convert(s, deg_mode)
ParseAndConvert ==
    /\ Idle
    /\ \E r \in Requests :
        /\ call' = [op |-> "parse_and_convert", s |-> r[1], deg_mode |-> r[2]]
        /\ ret' = parse_and_convert(categories, r[1], r[2])
    /\ UNCHANGED <<categories, pending>>

\* A caller runs safe_eval(expr, mode_deg)
SafeEval ==
    /\ Idle
    /\ \E expr \in EvalTexts, mode_deg \in BOOLEAN :
        /\ call' = [op |-> "safe_eval", expr |-> expr, mode_deg |-> mode_deg]
        /\ ret' = With(safe_eval(expr, mode_deg), LAMBDA r :
                      IF r.ok
                      THEN [kind |-> "return", v |-> r.v, evaluated |-> r.evaluated,
                            calls |-> r.calls]
                      ELSE [kind |-> "raise", exc |-> r.exc, msg |-> r.msg,
                            evaluated |-> r.evaluated, calls |-> r.calls])
    /\ UNCHANGED <<categories, pending>>

\* Variant of Get: the category is looked up with setdefault, which enters
\* an unknown category into the registry
GetSetDefault ==
    /\ Idle
    /\ \E category \in CategoryNames \cup {"money"},
          unit_key \in AllUnitTexts \cup UnknownUnitTexts :
        /\ call' = [op |-> "get", category |-> category, unit_key |-> unit_key]
        /\ ret' = [kind |-> "return", v |-> get(categories, category, unit_key)]
        /\ categories' =
                IF category \in CatNames(categories) THEN categories
                ELSE Append(categories,
                            [cat |-> category, units |-> [k \in {} |-> NoUnit]])
    /\ UNCHANGED pending

\* A caller runs ureg.get(category, unit_key)
Get ==
    /\ Idle
    /\ \E category \in CategoryNames \cup {"money"},
          unit_key \in AllUnitTexts \cup UnknownUnitTexts :
        /\ call' = [op |-> "get", category |-> category, unit_key |-> unit_key]
        /\ ret' = [kind |-> "return", v |-> get(categories, category, unit_key)]
    /\ UNCHANGED <<categories, pending>>

\* A caller runs ureg.detect_category(a, b)
DetectCategory ==
    /\ Idle
    /\ \E p \in UnitPairs :
        /\ call' = [op |-> "detect_category", a |-> p[1], b |-> p[2]]
        /\ ret' = [kind |-> "return", v |-> detect_category(categories, p[1], p[2])]
    /\ UNCHANGED <<categories, pending>>

\* A caller runs ureg.list_categories()
ListCategories ==
    /\ Idle
    /\ call' = [op |-> "list_categories"]
    /\ ret' = [kind |-> "return", v |-> list_categories(categories)]
    /\ UNCHANGED <<categories, pending>>

\* A caller runs ureg.list_units(category)
ListUnits ==
    /\ Idle
    /\ \E category \in CategoryNames \cup {"money"} :
        /\ call' = [op |-> "list_units", category |-> category]
        /\ ret' = [kind |-> "return", v |-> list_units(categories, category)]
    /\ UNCHANGED <<categories, pending>>

\* A caller holding a registered unit runs u.from_base(u.to_base(x))
RoundTrip ==
    /\ Idle
    /\ \E i \in DOMAIN categories :
        \E k \in DOMAIN categories[i].units :
        \E x \in RoundTripValues \cup
                 (IF categories[i].units[k].to_base.fn = "_to_base"
                  THEN ExtremeValues ELSE {}) :
            /\ call' = [op |-> "round_trip", category |-> categories[i].cat,
                        unit_key |-> k, x |-> x]
            /\ ret' = [kind |-> "return",
                       y |-> Apply(categories[i].units[k].from_base,
                                   Apply(categories[i].units[k].to_base, x))]
    /\ UNCHANGED <<categories, pending>>

\* The Run Batch button: run_batch() on the text of the batch box
RunBatch ==
    /\ Idle
    /\ \E text \in BatchTexts, deg_mode \in BOOLEAN :
        /\ call' = [op |-> "run_batch", text |-> text, deg_mode |-> deg_mode]
        /\ ret' = run_batch(categories, text, deg_mode)
    /\ UNCHANGED <<categories, pending>>

\* cmd_repl() is started and reaches its first input()
CmdRepl ==
    /\ Idle
    /\ call' = [op |-> "cmd_repl", stdin |-> << >>, eof |-> FALSE]
    /\ ret' = ReplStart
    /\ UNCHANGED <<categories, pending>>

\* input() returns a line and the loop of cmd_repl makes one turn.  The
\* line with a trigonometric value is typed in degree mode only, where its
\* value is rational.
Input ==
    /\ call.op = "cmd_repl"
    /\ ret.kind = "running"
    /\ Len(call.stdin) < MaxInputs
    /\ \E raw \in ReplInputs :
        /\ raw = "sin(90)*1 m to cm" => ret.deg
        /\ call' = [call EXCEPT !.stdin = Append(@, raw)]
        /\ ret' = ReplStep(categories, ret, raw)
    /\ UNCHANGED <<categories, pending>>

\* input() raises EOFError or KeyboardInterrupt
EndOfInput ==
    /\ call.op = "cmd_repl"
    /\ ret.kind = "running"
    /\ call' = [call EXCEPT !.eof = TRUE]
    /\ ret' = ReplEnd(ret)
    /\ UNCHANGED <<categories, pending>>

\* main(argv), from the parsed arguments on
Main ==
    /\ Idle
    /\ \E expr \in MainExprs, list \in ListArgs, repl \in BOOLEAN,
          gui \in BOOLEAN, deg \in BOOLEAN :
        \E stdin \in (IF repl /\ list = NoList THEN ReplScripts ELSE {<< >>}) :
            /\ call' = [op |-> "main",
                        args |-> [expr |-> expr, list |-> list, repl |-> repl,
                                  gui |-> gui, deg |-> deg],
                        stdin |-> stdin]
            /\ ret' = main(categories, call'.args, stdin)
    /\ UNCHANGED <<categories, pending>>

\* The caller takes the outcome; the engine is ready for the next call
Done ==
    /\ call # NoCall
    /\ ret.kind # "running"
    /\ call' = NoCall
    /\ ret' = NoRet
    /\ UNCHANGED <<categories, pending>>

Next ==
    \/ Register
    \/ ParseAndConvert
    \/ SafeEval
    \/ Get
    \/ DetectCategory
    \/ ListCategories
    \/ ListUnits
    \/ RoundTrip
    \/ RunBatch
    \/ CmdRepl
    \/ Input
    \/ EndOfInput
    \/ Main
    \/ Done

Spec == Init /\ [][Next]_vars


(***************************************************************************)
(* Properties.  Each is a predicate on the call under way and its outcome  *)
(* (or on the registry), checked in every reachable state.                 *)
(***************************************************************************)

Converting == call.op = "parse_and_convert"

\* The key ureg looks up for a unit text of an expression
KeyOf(text) == lower(strip(text))
KeysOf(category) == DOMAIN UnitsOf(categories, category)

\* The categories in which both unit texts resolve
Common(a, b) ==
    {c \in CatNames(categories) : KeyOf(a) \in KeysOf(c) /\ KeyOf(b) \in KeysOf(c)}

Resolved(category, text) == UnitsOf(categories, category)[KeyOf(text)]

IsLinear(u) == u.to_base.fn = "_to_base" /\ u.from_base.fn = "_from_base"

Steps(r) == Range(r.trace)

C2_CrossCategoryIsError ==
    Converting =>
        LET m == match(call.s)
        IN  /\ (m.ok /\ Common(m.from, m.to) = {}) =>
                /\ ret.kind = "raise"
                /\ Steps(ret) \cap {"to_base", "from_base"} = {}
                /\ (EvalValue(strip(m.value), call.deg_mode).ok =>
                        ret.msg = "Cannot detect a common category")
            /\ (call.s = "1 m to kg" =>
                    ret.kind = "raise" /\ ret.msg = "Cannot detect a common category")

C2_Witness ==
    /\ Converting
    /\ call.s = "1 m to kg"
    /\ ret.kind = "raise"
    /\ ret.msg = "Cannot detect a common category"

\* C3: in the registry as startup leaves it, for every registration
\* (category, name, factor), get(category, name) is the unit named name,
\* and 1 of that unit is factor base units.
C3_SeedTable ==
    Idle =>
        \A i \in DOMAIN REGISTRATIONS :
            LET c == REGISTRATIONS[i]
                u == get(categories, c.category, c.name)
            IN  /\ u.name = c.name
                /\ (c.to_base = "None" => Apply(u.to_base, One) = c.factor)

SameResult(r1, r2) ==
    /\ r1.kind = r2.kind
    /\ r1.kind = "return" =>
        /\ r1.category = r2.category
        /\ r1.from_unit = r2.from_unit
        /\ r1.to_unit = r2.to_unit
        /\ r1.out_value = r2.out_value

\* C4: when the from-unit text or the to-unit text of a matching
\* expression is an alias registered with a unit, the outcome is the one
\* of the same expression with the unit's canonical name in its place.
C4_AliasEquivalence ==
    Converting =>
        LET m == match(call.s)
        IN  m.ok =>
                \A i \in DOMAIN REGISTRATIONS :
                    LET c == REGISTRATIONS[i]
                    IN  /\ strip(m.from) \in Range(c.aliases) =>
                            SameResult(ret,
                                parse_and_convert(categories,
                                    Phrase(m.value, c.name, "to", m.to), call.deg_mode))
                        /\ strip(m.to) \in Range(c.aliases) =>
                            SameResult(ret,
                                parse_and_convert(categories,
                                    Phrase(m.value, m.from, "to", c.name), call.deg_mode))

\* The operand nodes of n; the name a Call calls is part of the Call when
\* it is one of the six functions
SubNodes(n) ==
    CASE n.t = "BinOp" -> <<n.left, n.right>>
      [] n.t = "UnaryOp" -> <<n.operand>>
      [] n.t = "Call" ->
            (IF n.func.t = "Name" /\ n.func.id \in AllowedFunctions THEN << >>
             ELSE <<n.func>>) \o n.args
      [] n.t \in {"Tuple", "List"} -> n.elts
      [] n.t = "Attribute" -> <<n.value>>
      [] n.t = "Subscript" -> <<n.value, n.slice>>
      [] n.t = "Compare" -> <<n.left>> \o n.comparators
      [] OTHER -> << >>

RECURSIVE NodesOf(_)
\* The nodes below and including those of todo
NodesOf(todo) ==
    IF Len(todo) = 0 THEN << >>
    ELSE <<Head(todo)>> \o NodesOf(Tail(todo) \o SubNodes(Head(todo)))

\* n is a numeric literal, one of + - * / ^ % //, unary + or -, a call of
\* one of the six functions, or the name pi or e
Arithmetic(n) ==
    CASE n.t = "Constant" -> n.ty \in {"num", "complex"}
      [] n.t = "BinOp" ->
            n.op \in {"Add", "Sub", "Mult", "Div", "Pow", "Mod", "FloorDiv"}
      [] n.t = "UnaryOp" -> n.op \in {"UAdd", "USub"}
      [] n.t = "Call" -> n.func.t = "Name" /\ n.func.id \in AllowedFunctions
      [] n.t = "Name" -> n.id \in {"pi", "e"}
      [] OTHER -> FALSE

\* The tree of the expression of the safe_eval call under way
Tree == parse(replace(call.expr, "^", "**"))

\* C5: safe_eval raises for every expression whose tree holds a node that
\* is none of: numeric literal, + - * / ^ % //, unary + -, call of
\* sqrt/sin/cos/tan/abs/round, name pi or e.
C5_FailsClosed ==
    (/\ call.op = "safe_eval"
     /\ Tree.ok
     /\ \E i \in DOMAIN NodesOf(<<Tree.node>>) : ~Arithmetic(NodesOf(<<Tree.node>>)[i]))
        => ret.kind = "raise"

\* n is a Call of something else than a bare name of allowed_names
ForeignCall(n) ==
    n.t = "Call" /\ (n.func.t # "Name" \/ n.func.id \notin allowed_names)

\* C6: every callable invoked by safe_eval, directly or under
\* parse_and_convert, is one of sqrt, sin, cos, tan, abs, round; a failed
\* validation means nothing was evaluated; an expression with a Call of
\* anything but a bare whitelisted name raises with nothing evaluated and
\* nothing invoked; "__import__('os') to m" raises and invokes nothing.
C6_OnlyWhitelistedCalls ==
    /\ call.op \in {"safe_eval", "parse_and_convert"} =>
            \A i \in DOMAIN ret.calls : ret.calls[i] \in AllowedFunctions
    /\ call.op = "safe_eval" =>
        /\ (ret.kind = "raise" /\ ~ret.evaluated) => ret.calls = << >>
        /\ (Tree.ok /\ \E i \in DOMAIN NodesOf(<<Tree.node>>) :
                            ForeignCall(NodesOf(<<Tree.node>>)[i]))
                => (ret.kind = "raise" /\ ~ret.evaluated /\ ret.calls = << >>)
    /\ (Converting /\ call.s = "__import__('os') to m") =>
            (ret.kind = "raise" /\ ret.calls = << >>)

C6_Witness ==
    /\ call.op = "safe_eval"
    /\ call.expr = "__import__('os')"
    /\ ret.kind = "raise"
    /\ ~ret.evaluated
    /\ ret.calls = << >>

\* C7: a parenthesised expression, a call of a whitelisted function or a
\* named constant, followed by a unit, is converted as the value it
\* evaluates to: '(1+2) ft to cm' as 3 ft, 'sqrt(16) ft to cm' as 4 ft,
\* 'pi m to cm' as pi m.
C7_ValueGrammar ==
    Converting =>
        \A v \in {"(1+2)", "sqrt(16)", "pi", "abs(-3)"}, u \in {"ft", "m"} :
            call.s = Phrase(v, u, "to", "cm") =>
                LET x == safe_eval(v, call.deg_mode).v.v
                    uf == get(categories, "length", u)
                    ut == get(categories, "length", "cm")
                IN  /\ ret.kind = "return"
                    /\ ret.value = x
                    /\ ret.from_unit = u
                    /\ ret.out_value = Apply(ut.from_base, Apply(uf.to_base, x))

\* C8: list_units(category) is the sorted sequence of the canonical names
\* of the units registered for the category, each once; empty for a
\* category never registered.
C8_ListUnits ==
    call.op = "list_units" => ret.v = sorted(NamesOf(call.category))

Reverse(seq) == [i \in 1..Len(seq) |-> seq[Len(seq) + 1 - i]]

\* C9: in the registry as startup leaves it every key of a category maps to
\* one unit registered in that category under a text that folds to the
\* key; no two categories share a key, so no pair of keys resolves in two
\* categories; detect_category(a, b) is that one category whichever way
\* the categories are iterated, and absent when no category holds both.
C9_DetectionUnambiguous ==
    /\ Idle =>
        /\ \A c \in CatNames(categories) :
                \A k \in KeysOf(c) :
                    \E i \in DOMAIN REGISTRATIONS :
                        /\ REGISTRATIONS[i].category = c
                        /\ REGISTRATIONS[i].name = UnitsOf(categories, c)[k].name
                        /\ k \in {lower(t) : t \in {REGISTRATIONS[i].name}
                                                    \cup Range(REGISTRATIONS[i].aliases)}
        /\ \A c1, c2 \in CatNames(categories) :
                c1 # c2 => KeysOf(c1) \cap KeysOf(c2) = {}
    /\ call.op = "detect_category" =>
        /\ ret.v = DetectFrom(Reverse(categories), lower(call.a), lower(call.b), 1)
        /\ (Common(call.a, call.b) = {} => ret.v = "None")
        /\ (Common(call.a, call.b) # {} => Common(call.a, call.b) = {ret.v})

C9_Witness ==
    /\ call.op = "detect_category"
    /\ call.a = "ft"
    /\ call.b = "cm"
    /\ ret.v = "length"

\* C10: safe_eval is the first step after the grammar match; float() of
\* the raw value text is tried exactly when the safe_eval step
\* (float(safe_eval(...))) failed, and after it; the value is the number
\* safe_eval yields, else the literal the raw text denotes; when both fail
\* the call raises with no category detection, lookup or transform.
C10_TwoStepValue ==
    Converting =>
        LET m == match(call.s)
            raw == strip(m.value)
            e == safe_eval(raw, call.deg_mode)
            first == IF e.ok THEN ToFloat(e.v) ELSE [ok |-> FALSE]
            second == ParseFloat(raw)
        IN  m.ok =>
                /\ ret.trace[2] = "safe_eval"
                /\ ("float(val_expr)" \in Steps(ret)) <=> ~first.ok
                /\ \A i, j \in DOMAIN ret.trace :
                        (ret.trace[i] = "safe_eval" /\ ret.trace[j] = "float(val_expr)")
                            => i < j
                /\ (first.ok /\ ret.kind = "return") => ret.value = first.v
                /\ (~first.ok /\ second.ok /\ ret.kind = "return") => ret.value = second.v
                /\ (~first.ok /\ ~second.ok) =>
                        /\ ret.kind = "raise"
                        /\ Steps(ret) \cap {"detect_category", "get", "to_base", "from_base"} = {}

C10_Witness ==
    /\ Converting
    /\ call.s = "007 ft to cm"
    /\ ret.kind = "return"
    /\ ret.value = Int2Num(7)
    /\ ret.trace = <<"match", "safe_eval", "float(val_expr)", "detect_category",
                     "get", "get", "to_base", "from_base">>

ToUpper == Zip(LOWER, UPPER, 1)
UpperCh(c) == IF c \in LowerChars THEN ToUpper[c] ELSE c

RECURSIVE upper(_)
upper(s) ==
    IF Len(s) = 0 THEN s
    ELSE UpperCh(Head(s)) \o upper(Tail(s))

\* The expression s with everything outside its value group (the keyword,
\* the unit texts, the separator) passed through F
Recase(s, F(_)) ==
    With(Match(EXPR_PAT, s, 1, [g \in {"value", "from", "to"} |-> <<0, 0>>]).caps,
         LAMBDA c :
            F(SubSeq(s, 1, c["value"][1] - 1))
            \o SubSeq(s, c["value"][1], c["value"][2])
            \o F(SubSeq(s, c["value"][2] + 1, Len(s))))

\* C12: when an expression converts, the expression with its keyword, unit
\* texts and separator in upper case, and the one with them in lower case,
\* convert too, with the same category, the same canonical unit names and
\* the same result.
C12_CaseInsensitive ==
    (Converting /\ ret.kind = "return") =>
        \A F \in {"upper", "lower"} :
            SameResult(ret,
                       parse_and_convert(categories,
                                         IF F = "upper" THEN Recase(call.s, upper)
                                         ELSE Recase(call.s, lower),
                                         call.deg_mode))

C12_Witness ==
    /\ Converting
    /\ call.s = "CONVERT 3 FT TO CM"
    /\ ret.kind = "return"
    /\ ret.from_unit = "ft"
    /\ ret.to_unit = "cm"
    /\ ret.category = "length"
    /\ ret.out_value = Dec(9144, -2)

BatchLines(text) == SelectSeq(splitlines(strip(text)), LAMBDA l : strip(l) # "")

IsComment(line) == Len(line) > 0 /\ Head(line) = "#"

HasPrefix(p, s) == Len(s) >= Len(p) /\ SubSeq(s, 1, Len(p)) = p

RECURSIVE RecordsOfLines(_, _)
\* The records that answer the lines which are not comments: all of out
\* when it has no record for a comment line, else out without the records
\* at the positions of the comment lines
RecordsOfLines(out, lines) ==
    IF Len(out) # Len(lines) THEN out
    ELSE IF Len(lines) = 0 THEN << >>
    ELSE (IF IsComment(Head(lines)) THEN << >> ELSE <<Head(out)>>)
         \o RecordsOfLines(Tail(out), Tail(lines))

\* C14: the records of a batch that answer its lines which are neither
\* blank nor comments are one per line, in the order of the lines; the
\* record of a line that converts is its result line, the record of a line
\* that fails is '[error] <line>  →  <message>', and no other record starts
\* with '[error]'; the lines after a failing line have their records.
C14_BatchOrder ==
    call.op = "run_batch" =>
        LET all == BatchLines(call.text)
            lines == SelectSeq(all, LAMBDA l : ~IsComment(l))
            records == RecordsOfLines(ret.out_lines, all)
        IN  /\ Len(records) = Len(lines)
            /\ \A i \in 1..Len(lines) :
                With(parse_and_convert(categories, lines[i], call.deg_mode), LAMBDA r :
                    /\ HasPrefix("[error]", records[i]) <=> r.kind = "raise"
                    /\ r.kind = "return" => records[i] = ResultLine(r)
                    /\ r.kind = "raise" =>
                        records[i] = "[error] " \o lines[i] \o "  →  " \o r.msg)

C14_Witness ==
    /\ call.op = "run_batch"
    /\ call.text = "3 ft to cm\nbogus\n5 kg in lb"
    /\ ret.out_lines = <<"3 ft = 91.44 cm   [length]",
                         "[error] bogus  →  Could not parse expression",
                         "5 kg = 11.0231 lb   [mass]">>

\* C15: run_batch passes no line that starts with '#' to parse_and_convert
\* and has no record for it: the records are as many as the lines that are
\* neither blank nor comments.
C15_CommentsIgnored ==
    call.op = "run_batch" =>
        LET all == BatchLines(call.text)
        IN  /\ \A i \in 1..Len(ret.passed) : ~IsComment(ret.passed[i])
            /\ Len(ret.out_lines) = Len(SelectSeq(all, LAMBDA l : ~IsComment(l)))

\* C16: main returns 2 exactly when an expression is given without --list,
\* --repl or --gui and the conversion of that expression raises an error;
\* in every other case (a conversion that succeeds, a listing, the REPL,
\* the GUI, the GUI launched by default) it returns 0.
C16_ExitCode ==
    call.op = "main" =>
        /\ ret.code \in {0, 2}
        /\ ret.code = 2 <=>
            /\ call.args.expr # None
            /\ call.args.list = NoList
            /\ ~call.args.repl
            /\ ~call.args.gui
            /\ parse_and_convert(categories, call.args.expr[1],
                                 call.args.deg).kind = "raise"

\* The REPL inputs that end the loop, and those that are commands
QuitCommands == {":quit", ":q", ":exit"}
IsCommand(s) ==
    s \in QuitCommands \cup {":deg", ":rad"} \/ HasPrefix(":list", s)

RECURSIVE ModeAfter(_, _)
\* The mode the most recent ':deg' or ':rad' among the first n inputs set
\* (TRUE for degrees); radians when there is none
ModeAfter(inputs, n) ==
    IF n = 0 THEN FALSE
    ELSE IF strip(inputs[n]) = ":deg" THEN TRUE
    ELSE IF strip(inputs[n]) = ":rad" THEN FALSE
    ELSE ModeAfter(inputs, n - 1)

RECURSIVE ConversionsOf(_, _)
\* The conversions the first n inputs ask for, each with the mode set by
\* the commands before it
ConversionsOf(inputs, n) ==
    IF n = 0 THEN << >>
    ELSE With(strip(inputs[n]), LAMBDA s :
            IF s = "" \/ IsCommand(s) THEN ConversionsOf(inputs, n - 1)
            ELSE Append(ConversionsOf(inputs, n - 1),
                        [s |-> s, deg_mode |-> ModeAfter(inputs, n - 1)]))

\* C17: in the REPL the trig mode starts as radians and is, after any
\* inputs, the one the most recent ':deg' or ':rad' set, whatever else was
\* typed (':list', blank lines, conversions that succeed or fail); every
\* conversion is made in that mode; a conversion that fails prints
\* 'Error: <message>' and the loop goes on; the loop has ended exactly when
\* ':quit', ':q' or ':exit' was typed or the input ended.
C17_ReplMode ==
    call.op = "cmd_repl" =>
        With(Len(call.stdin), LAMBDA n :
            /\ ret.deg = ModeAfter(call.stdin, n)
            /\ ret.passed = ConversionsOf(call.stdin, n)
            /\ ret.kind = "return" <=>
                \/ call.eof
                \/ n > 0 /\ strip(call.stdin[n]) \in QuitCommands
            /\ (n > 0 /\ ~call.eof) =>
                With(strip(call.stdin[n]), LAMBDA s :
                    (s # "" /\ ~IsCommand(s)) =>
                        With(parse_and_convert(categories, s,
                                               ModeAfter(call.stdin, n - 1)),
                             LAMBDA r :
                                r.kind = "raise" =>
                                    /\ ret.out[Len(ret.out)] = "Error: " \o r.msg
                                    /\ ret.kind = "running")))

C17_Witness ==
    /\ call.op = "cmd_repl"
    /\ call.stdin = <<":deg", "sin(90)*1 m to cm", "bogus">>
    /\ ret.kind = "running"
    /\ ret.deg
    /\ ret.passed = <<[s |-> "sin(90)*1 m to cm", deg_mode |-> TRUE],
                      [s |-> "bogus", deg_mode |-> TRUE]>>
    /\ SubSeq(ret.out, Len(ret.out) - 2, Len(ret.out))
        = <<"Trig mode: degrees", "1 m = 100 cm   [length]",
            "Error: Could not parse expression">>

\* C18: every listed unit is usable in an expression: for every category c
\* and all canonical names u, v that list_units(c) returns, the text
\* '1 u to v' matches the grammar with from-unit text u and to-unit text v,
\* and parse_and_convert returns with category c.
C18_ListedUnitsUsable ==
    (Converting /\ HasPrefix("1 ", call.s)) =>
        \A i \in DOMAIN categories :
            With(list_units(categories, categories[i].cat), LAMBDA units :
                \A j, k \in DOMAIN units :
                    call.s = Phrase("1", units[j], "to", units[k]) =>
                        /\ With(match(call.s), LAMBDA m :
                                m.ok /\ m.from = units[j] /\ m.to = units[k])
                        /\ ret.kind = "return"
                        /\ ret.category = categories[i].cat)

\* The steps of parse_and_convert in the order of its code, the evaluation
\* of the value standing for safe_eval, float(result) and float(val_expr)
StepOrder ==
    <<"match", "value", "detect_category", "get", "get", "to_base", "from_base">>

RECURSIVE Collapsed(_)
\* A trace with its evaluation steps replaced by one "value"
Collapsed(trace) ==
    IF trace = << >> THEN << >>
    ELSE With(Collapsed(Tail(trace)), LAMBDA rest :
            IF Head(trace) \in {"safe_eval", "float(result)", "float(val_expr)"}
            THEN (IF rest # << >> /\ Head(rest) = "value" THEN rest
                  ELSE <<"value">> \o rest)
            ELSE <<Head(trace)>> \o rest)

\* C19: parse_and_convert takes its steps in the order grammar match, value
\* evaluation, category detection, unit lookup, transform, and stops at the
\* first that fails: a text that does not match fails with nothing
\* evaluated; a text whose value cannot be evaluated fails with the
\* evaluation error and without detecting a category, whether or not its
\* units are known; a call that fails applies no to_base and no from_base,
\* and a call that returns has taken every step.
C19_CheckOrder ==
    Converting =>
        With(Collapsed(ret.trace), LAMBDA steps :
            /\ Len(steps) <= Len(StepOrder)
            /\ steps = SubSeq(StepOrder, 1, Len(steps))
            /\ ret.kind = "return" <=> steps = StepOrder
            /\ ret.kind = "raise" => Steps(ret) \cap {"to_base", "from_base"} = {}
            /\ With(match(call.s), LAMBDA m :
                IF ~m.ok
                THEN /\ ret.kind = "raise"
                     /\ ret.msg = "Could not parse expression"
                     /\ ret.trace = <<"match">>
                     /\ ret.calls = << >>
                ELSE With(EvalValue(strip(m.value), call.deg_mode), LAMBDA value :
                        IF ~value.ok
                        THEN /\ ret.kind = "raise"
                             /\ ret.msg = "could not convert string to float"
                             /\ steps = <<"match", "value">>
                        ELSE With(detect_category(categories, strip(m.from),
                                                  strip(m.to)), LAMBDA cat :
                                cat = "None" =>
                                    /\ ret.kind = "raise"
                                    /\ ret.msg = "Cannot detect a common category"
                                    /\ steps = <<"match", "value", "detect_category">>))))

C19_Witness ==
    /\ Converting
    /\ call.s = "1/0 furlong to parsec"
    /\ detect_category(categories, "furlong", "parsec") = "None"
    /\ ret.kind = "raise"
    /\ ret.msg = "could not convert string to float"
    /\ ret.trace = <<"match", "safe_eval", "float(val_expr)">>

=========================================================================
